---- MODULE Spec2Model ----
(***************************************************************************)
(* State-machine model of the multi-agent orchestration core of arq        *)
(* (src/src/browser_automation): the message broker and its mailboxes,     *)
(* the dead-letter queue, the event bus and the token-bucket rate limiter, *)
(* the agent pool with its task distributor and execution coordinator,     *)
(* the fault-tolerance classes (health monitor, error recovery, failover   *)
(* manager), the workflow engine (dependency resolver, task scheduler,     *)
(* workflow manager), the retrying workflow executor, the generic state    *)
(* machine and the state manager built on it. Where a claim is about       *)
(* threads, raising handlers or recursion depth, the call is also modelled *)
(* statement by statement: StateMachine.transition, send_message and       *)
(* receive_message, and get_critical_path.                                 *)
(* Every component has its own specification; all share one variable      *)
(* tuple, and a component's specification leaves the others' variables at  *)
(* their initial values.                                                   *)
(***************************************************************************)
EXTENDS Integers, Sequences, FiniteSets, TLC

(* ------------------------------------------------------------------ *)
(* Bounds of the model                                                 *)
(* ------------------------------------------------------------------ *)
\* Message objects constructed in one run (object identities 1..MaxMsgs).
MaxMsgs == 4
\* Constructed messages not yet handed to the broker.
MaxPending == 2
\* Last reading of the clock.
MaxTime == 1
\* MessageBroker(max_queue_size): capacity of every mailbox.
max_queue_size == 2
\* DeadLetterQueue(max_messages): capacity of a dead-letter ring built on its own.
DlqCapacity == 3
\* add_message calls on that ring.
MaxAdds == 5

\* DeadLetterQueue.__init__: the default max_messages, which the broker's ring has.
DEFAULT_MAX_MESSAGES == 500
\* MessageBroker.max_history
max_history == 1000

\* EventBus: callbacks subscribed to one event type.
MaxSubscribers == 3
\* RateLimiter(rate, capacity): capacity, in tokens.
RlCapacity == 2
\* The token count is kept in units of 1/TokenUnit token, and the bucket gains
\* RefillPerTick units per tick of the clock: rate = RefillPerTick/TokenUnit
\* tokens per tick (rate 2/s with ticks of 0.25 s).
TokenUnit == 2
RefillPerTick == 1
\* Last reading of the rate limiter's clock (time.time()).
MaxClock == 4

\* AgentPool(pool_name, max_agents): capacity of the pool.
max_agents == 2
\* Largest sum of the completed-task counters of the pool.
MaxCompleted == 1
\* Largest value of TaskDistributor.round_robin_index.
MaxRoundRobin == 2
\* HealthMonitor(heartbeat_timeout), in ticks of the monitor's clock.
heartbeat_timeout == 1
\* Last reading of the monitor's clock (datetime.now()).
MaxHealthClock == 3
\* Largest sum of the error and success counters of the health records.
MaxHealthCount == 1
\* attempt_recovery calls in one run.
MaxRecoveries == 3
\* Backups registered for one primary.
MaxBackups == 2
\* Dependencies of one task.
MaxDeps == 2
\* Tasks the scheduler has marked failed at one time.
MaxFailed == 1
\* Largest ExecutionContext.max_retries given to a context.
MaxRetriesArg == 3
\* Entries of ExecutionContext.execution_history.
MaxHistoryEntries == 6
\* Transitions added to one state machine.
MaxEdges == 2
\* Entries of StateMachine.audit_trail.
MaxAudit == 2
\* Messages that concurrent threads send.
MaxSends == 3
\* Rules of StateValidator.rules.
MaxRules == 1
\* The interpreter's recursion limit (sys.getrecursionlimit()), scaled down:
\* more frames than a workflow of the model has task ids.
RecursionLimit == 5
\* Task.priority: the default
DEFAULT_PRIORITY == 5

Agents == {"a1", "a2"}
Senders == {"s1"}
\* Agent ids offered to the pool, and task ids offered to the coordinator.
PoolAgentIds == {"p1", "p2", "p3"}
TaskIds == {"t1", "t2"}
\* Python's None
None == "None"

(* ------------------------------------------------------------------ *)
(* Message, MessagePriority, MessageType                               *)
(* ------------------------------------------------------------------ *)
\* MessagePriority: the enum's values.
CRITICAL == 0
HIGH == 1
NORMAL == 2
LOW == 3
MessagePriority == {CRITICAL, HIGH, NORMAL, LOW}

\* MessagePriority.name
PriorityName(p) ==
    CASE p = CRITICAL -> "CRITICAL"
      [] p = HIGH -> "HIGH"
      [] p = NORMAL -> "NORMAL"
      [] OTHER -> "LOW"

\* MessageType: the enum's values.
MessageType == {"task", "result", "event", "heartbeat", "error", "control"}

\* What a caller passes as message_type and payload. The dataclass checks
\* neither: a payload is a dict or some other container (a list).
MessageTypeArgs == {"task"}
DictPayload == [kind |-> "dict"]
PayloadArgs == {DictPayload, [kind |-> "list"]}
PriorityArgs == {HIGH, NORMAL}

\* Message(...): uid is the object's identity, timestamp the clock's reading
\* at construction (default_factory=datetime.now).
NewMessage(uid, sender, recipient, message_type, payload, priority, t) ==
    [uid |-> uid, sender |-> sender, recipient |-> recipient,
     message_type |-> message_type, payload |-> payload,
     priority |-> priority, timestamp |-> t]

NoMessage == NewMessage(0, "", "", "", [kind |-> "none"], NORMAL, 0)

\* Message.__lt__
Lt(self, other) ==
    IF self.priority # other.priority
    THEN self.priority < other.priority
    ELSE self.timestamp < other.timestamp

\* Message.to_dict: the enum's value, the priority's name, the timestamp's
\* ISO text; the object's identity is not part of the dictionary.
to_dict(m) ==
    [sender |-> m.sender, recipient |-> m.recipient, type |-> m.message_type,
     payload |-> m.payload, priority |-> PriorityName(m.priority),
     timestamp |-> <<"iso", m.timestamp>>, message_id |-> "",
     correlation_id |-> "None"]

(* ------------------------------------------------------------------ *)
(* ProtocolValidator                                                   *)
(* ------------------------------------------------------------------ *)
REQUIRED_FIELDS == {"sender", "recipient", "type", "payload"}
VALID_MESSAGE_TYPES == {"task", "result", "event", "heartbeat", "error", "control"}
VALID_PRIORITIES == {"CRITICAL", "HIGH", "NORMAL", "LOW"}

\* ProtocolValidator.validate_message: TRUE when it returns True, FALSE when
\* it raises ValueError.
validate_message(d) ==
    /\ REQUIRED_FIELDS \subseteq DOMAIN d
    /\ d.type \in VALID_MESSAGE_TYPES
    /\ ("priority" \in DOMAIN d => d.priority \in VALID_PRIORITIES)
    /\ d.payload.kind = "dict"

(* ------------------------------------------------------------------ *)
(* queue.PriorityQueue as MessageQueue uses it: a binary heap (heapq)  *)
(* ordered by Message.__lt__. Positions are heapq's, from 0.           *)
(* ------------------------------------------------------------------ *)
RECURSIVE SiftDown(_, _, _, _)
\* heapq._siftdown(heap, startpos, pos), newitem = heap[pos]
SiftDown(heap, startpos, pos, newitem) ==
    IF pos > startpos
    THEN LET parentpos == (pos - 1) \div 2
             parent == heap[parentpos + 1]
         IN  IF Lt(newitem, parent)
             THEN SiftDown([heap EXCEPT ![pos + 1] = parent], startpos, parentpos, newitem)
             ELSE [heap EXCEPT ![pos + 1] = newitem]
    ELSE [heap EXCEPT ![pos + 1] = newitem]

RECURSIVE SiftUpLoop(_, _, _)
\* The while loop of heapq._siftup: the smaller child moves up until a leaf
\* is reached; yields the heap and the leaf position.
SiftUpLoop(heap, pos, endpos) ==
    LET childpos == 2 * pos + 1
        rightpos == childpos + 1
    IN  IF childpos < endpos
        THEN LET c == IF rightpos < endpos /\ ~Lt(heap[childpos + 1], heap[rightpos + 1])
                      THEN rightpos ELSE childpos
             IN  SiftUpLoop([heap EXCEPT ![pos + 1] = heap[c + 1]], c, endpos)
        ELSE [heap |-> heap, pos |-> pos]

\* heapq._siftup(heap, pos)
SiftUp(heap, pos) ==
    LET newitem == heap[pos + 1]
        r == SiftUpLoop(heap, pos, Len(heap))
    IN  SiftDown([r.heap EXCEPT ![r.pos + 1] = newitem], pos, r.pos, newitem)

\* PriorityQueue._put: heapq.heappush
HeapPush(heap, item) ==
    SiftDown(Append(heap, item), 0, Len(heap), item)

\* PriorityQueue._get: heapq.heappop, the item returned
HeapPopItem(heap) == heap[1]

\* PriorityQueue._get: heapq.heappop, the heap left
HeapPopRest(heap) ==
    LET lastelt == heap[Len(heap)]
        rest == SubSeq(heap, 1, Len(heap) - 1)
    IN  IF rest = <<>> THEN rest
        ELSE SiftUp([rest EXCEPT ![1] = lastelt], 0)

SeqToSet(s) == {s[i] : i \in 1..Len(s)}

(* ------------------------------------------------------------------ *)
(* State                                                               *)
(* ------------------------------------------------------------------ *)
VARIABLES
    now,                \* the clock (datetime.now(), time.time()), in ticks
    nextId,             \* identity of the next Message object constructed
    pending,            \* Message objects constructed and not yet sent
    message_queues,     \* MessageBroker.message_queues, in insertion order
    dead_letter_queue,  \* DeadLetterQueue.messages
    message_history,    \* MessageBroker.message_history
    sent_order,         \* history: identities of the accepted messages, in send order
    send_recipients,    \* history: agent ids that were the recipient of a send
    receive_agents,     \* history: agent ids receive_message was called for
    ret,                \* the last broker call and what it returned
    dlq_messages,       \* DeadLetterQueue.messages of a ring built on its own
    dlq_added,          \* history: the entries add_message built for it, in call order
    subscribers,        \* EventBus.subscribers
    bus_ret,            \* the last event-bus call and what it did
    rl_clock,           \* time.time(), in ticks
    rl_tokens,          \* RateLimiter.tokens, in units of 1/TokenUnit
    rl_last_update,     \* RateLimiter.last_update
    rl_lock,            \* RateLimiter.lock: its holder, 0 when free
    rl_pc,              \* where each thread is in allow_message
    rl_granted,         \* history: allow_message calls that returned True
    rl_supplied,        \* history: units put into the bucket, the first fill included
    rl_burst,           \* history: calls since the bucket was full, no time elapsing
    rl_last,            \* history: the last allow_message call
    pool_agents,        \* AgentPool.agents, in insertion order
    strategy,           \* TaskDistributor.strategy
    round_robin_index,  \* TaskDistributor.round_robin_index
    assignments,        \* ExecutionCoordinator.assignments, by task id
    pool_ret,           \* the last pool or coordinator call and what it returned
    agent_health,       \* HealthMonitor.agent_health, in insertion order
    hm_now,             \* datetime.now() of the monitor, in ticks
    hm_pc,              \* where check_health is: "idle", or "scan" once it has read the clock
    hm_check_now,       \* the local now of the last check_health call
    hm_ret,             \* the last check_health call and the list it returned
    hm_revived,         \* history: agents whose heartbeat found them failed
    recovery_history,   \* ErrorRecovery.recovery_history
    recovery_ret,       \* the last attempt_recovery call and what it returned
    agent_backup_map,   \* FailoverManager.agent_backup_map
    first_backup,       \* history: the first backup registered for each primary
    failover_ret,       \* the last failover-manager call and what it returned
    wf_tasks,           \* Workflow.tasks, in insertion order
    dependency_graph,   \* DependencyResolver.dependency_graph
    reverse_graph,      \* DependencyResolver.reverse_graph
    ready_queue,        \* TaskScheduler.ready_queue
    task_status,        \* TaskScheduler.task_status, by task id (None: no entry)
    execution_order,    \* TaskScheduler.execution_order
    wf_ret,             \* the last workflow-engine call and what it returned
    contexts,           \* WorkflowExecutor.contexts: the contexts created, one at most
    exec_ret,           \* the last execute_with_retry call and what it returned
    current_state,      \* StateMachine.current_state
    states,             \* StateMachine.states, by state name (None: not declared)
    transitions,        \* StateMachine.transitions, by from_state
    state_entry_handlers, \* StateMachine.state_entry_handlers: the states with one
    state_exit_handlers,  \* StateMachine.state_exit_handlers: the states with one
    audit_trail,        \* StateMachine.audit_trail
    sm_ret,             \* the last state-machine call, what it returned and what it ran
    sm_callbacks,       \* StateMachine.callbacks: the (old, new) pairs with a callback
    sm_calls,           \* the transition call of each thread: where it is and its locals
    tracker_current_state, \* AdvancedStateManager.tracker.current_state
    state_history,      \* StateTracker.state_history: the states recorded, in order
    validator_rules,    \* StateValidator.rules
    asm_ret,            \* the last transition_with_validation call and what it returned
    cp_index,           \* get_critical_path: its place in workflow.tasks, 0 outside a call
    cp_stack,           \* get_critical_path: the calls of calculate_length under way
    cp_path_lengths,    \* get_critical_path: path_lengths, in insertion order
    cp_ret,             \* the last get_critical_path call and how it ended
    br_calls,           \* the send_message or receive_message call of each thread
    br_accepted,        \* history: the messages send_message returned True for
    br_received         \* history: the messages receive_message returned, for whom, and
                        \* how many times each was returned so far

brokerVars == <<now, nextId, pending, message_queues, dead_letter_queue,
                message_history, sent_order, send_recipients, receive_agents, ret>>
dlqVars == <<dlq_messages, dlq_added>>
busVars == <<subscribers, bus_ret>>
rlVars == <<rl_clock, rl_tokens, rl_last_update, rl_lock, rl_pc, rl_granted,
            rl_supplied, rl_burst, rl_last>>
poolVars == <<pool_agents, strategy, round_robin_index, assignments, pool_ret>>
healthVars == <<agent_health, hm_now, hm_pc, hm_check_now, hm_ret, hm_revived>>
recoveryVars == <<recovery_history, recovery_ret>>
failoverVars == <<agent_backup_map, first_backup, failover_ret>>
faultVars == <<healthVars, recoveryVars, failoverVars>>
workflowVars == <<wf_tasks, dependency_graph, reverse_graph, ready_queue,
                  task_status, execution_order, wf_ret>>
executorVars == <<contexts, exec_ret>>
machineVars == <<current_state, states, transitions, state_entry_handlers,
                 state_exit_handlers, audit_trail, sm_ret>>
stepVars == <<sm_callbacks, sm_calls>>
managerVars == <<tracker_current_state, state_history, validator_rules, asm_ret>>
pathVars == <<cp_index, cp_stack, cp_path_lengths, cp_ret>>
automationVars == <<workflowVars, executorVars, machineVars, stepVars, managerVars, pathVars>>
deliveryVars == <<br_calls, br_accepted, br_received>>
vars == <<brokerVars, dlqVars, busVars, rlVars, poolVars, faultVars, automationVars,
    deliveryVars>>

\* What an action of one component leaves alone: the other components.
notBroker == <<dlqVars, busVars, rlVars, poolVars, faultVars, automationVars, deliveryVars>>
notDelivery == <<dlqVars, busVars, rlVars, poolVars, faultVars, automationVars>>
notDlq == <<brokerVars, busVars, rlVars, poolVars, faultVars, automationVars, deliveryVars>>
notBus == <<brokerVars, dlqVars, rlVars, poolVars, faultVars, automationVars, deliveryVars>>
notRl == <<brokerVars, dlqVars, busVars, poolVars, faultVars, automationVars, deliveryVars>>
notPool == <<brokerVars, dlqVars, busVars, rlVars, faultVars, automationVars, deliveryVars>>
notHealth == <<brokerVars, dlqVars, busVars, rlVars, poolVars, recoveryVars, failoverVars,
    automationVars, deliveryVars>>
notRecovery == <<brokerVars, dlqVars, busVars, rlVars, poolVars, healthVars, failoverVars,
    automationVars, deliveryVars>>
notFailover == <<brokerVars, dlqVars, busVars, rlVars, poolVars, healthVars, recoveryVars,
    automationVars, deliveryVars>>
notWorkflow == <<brokerVars, dlqVars, busVars, rlVars, poolVars, faultVars, executorVars,
    machineVars, stepVars, managerVars, pathVars, deliveryVars>>
notExecutor == <<brokerVars, dlqVars, busVars, rlVars, poolVars, faultVars, workflowVars,
    machineVars, stepVars, managerVars, pathVars, deliveryVars>>
notMachine == <<brokerVars, dlqVars, busVars, rlVars, poolVars, faultVars, workflowVars,
    executorVars, stepVars, managerVars, pathVars, deliveryVars>>
notSteps == <<brokerVars, dlqVars, busVars, rlVars, poolVars, faultVars, workflowVars,
    executorVars, managerVars, pathVars, deliveryVars>>
notManager == <<brokerVars, dlqVars, busVars, rlVars, poolVars, faultVars, workflowVars,
    executorVars, stepVars, pathVars, deliveryVars>>
notPath == <<brokerVars, dlqVars, busVars, rlVars, poolVars, faultVars, executorVars,
    machineVars, stepVars, managerVars, deliveryVars>>

(* ------------------------------------------------------------------ *)
(* MessageQueue                                                        *)
(* ------------------------------------------------------------------ *)
\* MessageQueue.__init__
NewMessageQueue(agent_id, max_size) ==
    [agent_id |-> agent_id, queue |-> <<>>, max_size |-> max_size, message_count |-> 0]

\* A capacity check that is off by one.
QueueIsFullOffByOne(q) == q.max_size > 0 /\ Len(q.queue) > q.max_size

\* queue.Queue.put(block=False) raises Full: maxsize > 0 and qsize() >= maxsize
QueueIsFull(q) == q.max_size > 0 /\ Len(q.queue) >= q.max_size

\* MessageQueue.put(message, block=False): the queue left and the value returned
MessageQueuePut(q, message) ==
    IF QueueIsFull(q)
    THEN [q |-> q, ok |-> FALSE]
    ELSE [q |-> [q EXCEPT !.queue = HeapPush(@, message), !.message_count = @ + 1],
          ok |-> TRUE]

\* MessageQueue.get(block=True, timeout): on an empty queue the timeout
\* passes and None is returned.
MessageQueueGet(q) ==
    IF q.queue = <<>>
    THEN [q |-> q, msg |-> NoMessage]
    ELSE [q |-> [q EXCEPT !.queue = HeapPopRest(@), !.message_count = @ - 1],
          msg |-> HeapPopItem(q.queue)]

(* ------------------------------------------------------------------ *)
(* DeadLetterQueue                                                     *)
(* ------------------------------------------------------------------ *)
\* The entry add_message builds.
DlqEntry(message, reason, t) ==
    [message |-> to_dict(message), failure_reason |-> reason,
     timestamp |-> <<"iso", t>>]

\* An eviction test that lets the ring grow one past its capacity.
add_message_late_eviction(messages, max_messages, message, reason, t) ==
    LET kept == IF Len(messages) > max_messages THEN Tail(messages) ELSE messages
    IN  Append(kept, DlqEntry(message, reason, t))

\* DeadLetterQueue.add_message
add_message(messages, max_messages, message, reason, t) ==
    LET kept == IF Len(messages) >= max_messages THEN Tail(messages) ELSE messages
    IN  Append(kept, DlqEntry(message, reason, t))

(* ------------------------------------------------------------------ *)
(* MessageBroker                                                       *)
(* ------------------------------------------------------------------ *)
\* The keys of message_queues.
KnownAgents(mq) == {mq[i].agent_id : i \in 1..Len(mq)}

QueueIndex(mq, agent_id) == CHOOSE i \in 1..Len(mq) : mq[i].agent_id = agent_id

\* A _get_or_create_queue that stores a new queue without looking the key up
\* again under the lock.
GetOrCreateQueueAlways(mq, agent_id) ==
    IF agent_id \in KnownAgents(mq)
    THEN [mq EXCEPT ![QueueIndex(mq, agent_id)] = NewMessageQueue(agent_id, max_queue_size)]
    ELSE Append(mq, NewMessageQueue(agent_id, max_queue_size))

\* MessageBroker._get_or_create_queue: the dictionary left
GetOrCreateQueue(mq, agent_id) ==
    IF agent_id \in KnownAgents(mq)
    THEN mq
    ELSE Append(mq, NewMessageQueue(agent_id, max_queue_size))

\* The messages held by an agent's mailbox (none when it has no mailbox).
Mailbox(mq, agent_id) ==
    IF agent_id \in KnownAgents(mq) THEN mq[QueueIndex(mq, agent_id)].queue ELSE <<>>

\* MessageBroker._record_message
record_message(history, message) ==
    LET kept == IF Len(history) >= max_history THEN Tail(history) ELSE history
    IN  Append(kept, to_dict(message))

\* MessageBroker.send_message on the broker state b = [mq, dlq, hist, order]:
\* the state left and the value returned. Nothing in the try block raises
\* for the messages of this model, so the except branch is not taken.
send_message(b, message, t) ==
    LET mq1 == GetOrCreateQueue(b.mq, message.recipient)
        i == QueueIndex(mq1, message.recipient)
        r == MessageQueuePut(mq1[i], message)
    IN  IF r.ok
        THEN [mq |-> [mq1 EXCEPT ![i] = r.q], dlq |-> b.dlq,
              hist |-> record_message(b.hist, message),
              order |-> Append(b.order, message.uid), ok |-> TRUE]
        ELSE [mq |-> mq1, dlq |-> add_message(b.dlq, DEFAULT_MAX_MESSAGES, message, "Queue full", t),
              hist |-> b.hist, order |-> b.order, ok |-> FALSE]

\* A receive that only looks the queue up.
ReceiveQueuesNoCreate(mq, agent_id) == mq

\* MessageBroker.receive_message: the dictionary that receive looks the
\* agent's queue up in.
ReceiveQueues(mq, agent_id) == GetOrCreateQueue(mq, agent_id)

RECURSIVE BroadcastLoop(_, _, _, _, _, _, _, _)
\* The for loop of MessageBroker.broadcast_message over the key snapshot
\* agents, from its i-th key on: uid is the identity of the next copy, n the
\* successful sends so far.
BroadcastLoop(b, agents, i, message, exclude_agents, uid, n, t) ==
    IF i > Len(agents)
    THEN [b |-> b, n |-> n, uid |-> uid]
    ELSE IF agents[i] \in exclude_agents
         THEN BroadcastLoop(b, agents, i + 1, message, exclude_agents, uid, n, t)
         ELSE LET msg_copy == NewMessage(uid, message.sender, agents[i],
                                         message.message_type, message.payload,
                                         message.priority, t)
                  r == send_message(b, msg_copy, t)
              IN  BroadcastLoop([mq |-> r.mq, dlq |-> r.dlq, hist |-> r.hist, order |-> r.order],
                                agents, i + 1, message, exclude_agents, uid + 1,
                                IF r.ok THEN n + 1 ELSE n, t)

\* A broadcast that does not test exclude_agents.
broadcast_message_to_all(b, message, exclude_agents, uid, t) ==
    LET agents == [i \in 1..Len(b.mq) |-> b.mq[i].agent_id]
    IN  BroadcastLoop(b, agents, 1, message, {}, uid, 0, t)

\* MessageBroker.broadcast_message
broadcast_message(b, message, exclude_agents, uid, t) ==
    LET agents == [i \in 1..Len(b.mq) |-> b.mq[i].agent_id]
    IN  BroadcastLoop(b, agents, 1, message, exclude_agents, uid, 0, t)

BrokerState ==
    [mq |-> message_queues, dlq |-> dead_letter_queue, hist |-> message_history,
     order |-> sent_order]

Ret(op, ok, msg, n) == [op |-> op, ok |-> ok, msg |-> msg, n |-> n]

(* ------------------------------------------------------------------ *)
(* Actions of the broker                                               *)
(* ------------------------------------------------------------------ *)
\* The clock advances.
Tick ==
    /\ now < MaxTime
    /\ now' = now + 1
    /\ UNCHANGED <<nextId, pending, message_queues, dead_letter_queue,
                   message_history, sent_order, send_recipients, receive_agents, ret>>
    /\ UNCHANGED notBroker

\* A caller constructs a Message and keeps it for a later send; it is
\* stamped with the clock's reading.
CreateMessage(sender, recipient, message_type, payload, priority) ==
    /\ nextId <= MaxMsgs
    /\ Cardinality(pending) < MaxPending
    /\ pending' = pending \cup
          {NewMessage(nextId, sender, recipient, message_type, payload, priority, now)}
    /\ nextId' = nextId + 1
    /\ UNCHANGED <<now, message_queues, dead_letter_queue, message_history,
                   sent_order, send_recipients, receive_agents, ret>>
    /\ UNCHANGED notBroker

\* The effect of broker.send_message(message) on the broker's state.
SendEffect(message) ==
    LET r == send_message(BrokerState, message, now)
    IN  /\ message_queues' = r.mq
        /\ dead_letter_queue' = r.dlq
        /\ message_history' = r.hist
        /\ sent_order' = r.order
        /\ ret' = Ret("send", r.ok, NoMessage, 0)
        /\ send_recipients' = send_recipients \cup {message.recipient}
        /\ UNCHANGED <<now, receive_agents>>

\* broker.send_message(message) for a message constructed earlier
SendMessage(message) ==
    /\ message \in pending
    /\ SendEffect(message)
    /\ pending' = pending \ {message}
    /\ UNCHANGED nextId
    /\ UNCHANGED notBroker

\* broker.send_message(Message(...)): the message is constructed for the call
SendNewMessage(sender, recipient, message_type, payload, priority) ==
    /\ nextId <= MaxMsgs
    /\ SendEffect(NewMessage(nextId, sender, recipient, message_type, payload, priority, now))
    /\ nextId' = nextId + 1
    /\ UNCHANGED pending
    /\ UNCHANGED notBroker

\* broker.receive_message(agent_id, timeout)
ReceiveMessage(agent_id) ==
    /\ LET mq1 == ReceiveQueues(message_queues, agent_id)
       IN  IF agent_id \in KnownAgents(mq1)
           THEN LET i == QueueIndex(mq1, agent_id)
                    r == MessageQueueGet(mq1[i])
                IN  /\ message_queues' = [mq1 EXCEPT ![i] = r.q]
                    /\ ret' = Ret("receive", r.msg # NoMessage, r.msg, 0)
           ELSE /\ message_queues' = mq1
                /\ ret' = Ret("receive", FALSE, NoMessage, 0)
    /\ receive_agents' = receive_agents \cup {agent_id}
    /\ UNCHANGED <<now, nextId, pending, dead_letter_queue, message_history,
                   sent_order, send_recipients>>
    /\ UNCHANGED notBroker

\* The known mailboxes a broadcast sends to.
BroadcastTargets(mq, exclude_agents) == KnownAgents(mq) \ exclude_agents

\* broker.broadcast_message(message, exclude_agents): the caller constructs
\* message for the call; only its copies are sent.
BroadcastMessage(sender, message_type, payload, priority, exclude_agents) ==
    /\ nextId + Cardinality(BroadcastTargets(message_queues, exclude_agents)) <= MaxMsgs + 1
    /\ LET message == NewMessage(0, sender, "", message_type, payload, priority, now)
           r == broadcast_message(BrokerState, message, exclude_agents, nextId, now)
       IN  /\ message_queues' = r.b.mq
           /\ dead_letter_queue' = r.b.dlq
           /\ message_history' = r.b.hist
           /\ sent_order' = r.b.order
           /\ nextId' = r.uid
           /\ ret' = Ret("broadcast", TRUE, NoMessage, r.n)
    /\ send_recipients' = send_recipients \cup BroadcastTargets(message_queues, exclude_agents)
    /\ UNCHANGED <<now, pending, receive_agents>>
    /\ UNCHANGED notBroker

(* ------------------------------------------------------------------ *)
(* A DeadLetterQueue of capacity DlqCapacity, used on its own          *)
(* ------------------------------------------------------------------ *)
DlqReasons == {"Queue full", "Test failure"}

\* dlq.add_message(message, reason)
DlqAddMessage(message, reason) ==
    /\ Len(dlq_added) < MaxAdds
    /\ dlq_messages' = add_message(dlq_messages, DlqCapacity, message, reason, 0)
    /\ dlq_added' = Append(dlq_added, DlqEntry(message, reason, 0))
    /\ UNCHANGED notDlq

\* dlq.clear()
DlqClear ==
    /\ dlq_messages # <<>>
    /\ dlq_messages' = <<>>
    /\ dlq_added' = <<>>
    /\ UNCHANGED notDlq

(* ------------------------------------------------------------------ *)
(* EventBus                                                            *)
(* ------------------------------------------------------------------ *)
EventTypes == {"e1", "e2"}
Handlers == {"h1", "h2"}

\* self.subscribers.get(event_type, [])
SubscribersGet(subs, event_type) ==
    IF event_type \in DOMAIN subs THEN subs[event_type] ELSE <<>>

\* list.remove(callback): the list without the first occurrence of callback
ListRemove(list, callback) ==
    LET i == CHOOSE k \in 1..Len(list) :
                 list[k] = callback /\ \A j \in 1..(k - 1) : list[j] # callback
    IN  SubSeq(list, 1, i - 1) \o SubSeq(list, i + 1, Len(list))

BusRet(op, event_type, invoked, raised, failing) ==
    [op |-> op, event_type |-> event_type, invoked |-> invoked, raised |-> raised,
     failing |-> failing]

RECURSIVE PublishLoopNoCatch(_, _, _, _)
\* The loop without its try/except: the first exception leaves publish.
PublishLoopNoCatch(callbacks, i, failing, invoked) ==
    IF i > Len(callbacks)
    THEN [invoked |-> invoked, raised |-> FALSE]
    ELSE IF callbacks[i] \in failing
         THEN [invoked |-> Append(invoked, callbacks[i]), raised |-> TRUE]
         ELSE PublishLoopNoCatch(callbacks, i + 1, failing, Append(invoked, callbacks[i]))

RECURSIVE PublishLoop(_, _, _, _)
\* The for loop of EventBus.publish from the i-th callback on: the callbacks
\* in failing raise an Exception when called, which the loop's try/except
\* catches and prints. Yields the callbacks invoked, in order, and whether
\* an exception left publish.
PublishLoop(callbacks, i, failing, invoked) ==
    IF i > Len(callbacks)
    THEN [invoked |-> invoked, raised |-> FALSE]
    ELSE PublishLoop(callbacks, i + 1, failing, Append(invoked, callbacks[i]))

\* event_bus.subscribe(event_type, callback)
Subscribe(event_type, callback) ==
    /\ Len(SubscribersGet(subscribers, event_type)) < MaxSubscribers
    /\ subscribers' =
          [e \in DOMAIN subscribers \cup {event_type} |->
              IF e = event_type
              THEN Append(SubscribersGet(subscribers, e), callback)
              ELSE subscribers[e]]
    /\ bus_ret' = BusRet("subscribe", event_type, <<>>, FALSE, {})
    /\ UNCHANGED notBus

\* event_bus.unsubscribe(event_type, callback): list.remove raises ValueError
\* when the callback is not in the list of a known event type.
Unsubscribe(event_type, callback) ==
    /\ IF event_type \in DOMAIN subscribers
       THEN IF callback \in SeqToSet(subscribers[event_type])
            THEN /\ subscribers' = [subscribers EXCEPT
                                       ![event_type] = ListRemove(@, callback)]
                 /\ bus_ret' = BusRet("unsubscribe", event_type, <<>>, FALSE, {})
            ELSE /\ bus_ret' = BusRet("unsubscribe", event_type, <<>>, TRUE, {})
                 /\ UNCHANGED subscribers
       ELSE /\ bus_ret' = BusRet("unsubscribe", event_type, <<>>, FALSE, {})
            /\ UNCHANGED subscribers
    /\ UNCHANGED notBus

\* A publish whose loop has no try/except.
publish_no_catch(subs, event_type, failing) ==
    PublishLoopNoCatch(SubscribersGet(subs, event_type), 1, failing, <<>>)

\* EventBus.publish(event): what the call does, for an event of the type
\* given and the callbacks in failing raising.
publish(subs, event_type, failing) ==
    PublishLoop(SubscribersGet(subs, event_type), 1, failing, <<>>)

\* event_bus.publish(event)
Publish(event_type, failing) ==
    /\ LET r == publish(subscribers, event_type, failing)
       IN  bus_ret' = BusRet("publish", event_type, r.invoked, r.raised, failing)
    /\ UNCHANGED subscribers
    /\ UNCHANGED notBus

(* ------------------------------------------------------------------ *)
(* RateLimiter                                                         *)
(* ------------------------------------------------------------------ *)
RlThreads == {1, 2}

Min(a, b) == IF a <= b THEN a ELSE b

\* No mutual exclusion.
LockIsFreeAlways(lock) == TRUE

\* "with self.lock": the lock can be taken.
LockIsFree(lock) == lock = 0

\* A test that admits on any fraction of a token.
HasTokenAnyFraction(tokens) == tokens > 0

\* "if self.tokens >= 1"
HasToken(tokens) == tokens >= TokenUnit

\* min(self.capacity, self.tokens + elapsed * self.rate)
Refilled(tokens, elapsed) ==
    Min(RlCapacity * TokenUnit, tokens + elapsed * RefillPerTick)

RlLast(called, ok, elapsed, prev_called, prev_ok) ==
    [called |-> called, ok |-> ok, elapsed |-> elapsed,
     prev_called |-> prev_called, prev_ok |-> prev_ok]

\* time.time() advances.
RlTick ==
    /\ rl_clock < MaxClock
    /\ rl_clock' = rl_clock + 1
    /\ UNCHANGED <<rl_tokens, rl_last_update, rl_lock, rl_pc, rl_granted,
                   rl_supplied, rl_burst, rl_last>>
    /\ UNCHANGED notRl

\* A thread calls allow_message and waits for the lock.
AllowCall(t) ==
    /\ rl_pc[t] = "idle"
    /\ rl_pc' = [rl_pc EXCEPT ![t] = "acquire"]
    /\ UNCHANGED <<rl_clock, rl_tokens, rl_last_update, rl_lock, rl_granted,
                   rl_supplied, rl_burst, rl_last>>
    /\ UNCHANGED notRl

\* with self.lock:
AllowAcquire(t) ==
    /\ rl_pc[t] = "acquire"
    /\ LockIsFree(rl_lock)
    /\ rl_lock' = t
    /\ rl_pc' = [rl_pc EXCEPT ![t] = "refill"]
    /\ UNCHANGED <<rl_clock, rl_tokens, rl_last_update, rl_granted,
                   rl_supplied, rl_burst, rl_last>>
    /\ UNCHANGED notRl

\* now = time.time(); elapsed = now - self.last_update;
\* self.tokens = min(...); self.last_update = now
AllowRefill(t) ==
    /\ rl_pc[t] = "refill"
    /\ LET elapsed == rl_clock - rl_last_update
           tokens == Refilled(rl_tokens, elapsed)
       IN  /\ rl_tokens' = tokens
           /\ rl_supplied' = rl_supplied + (tokens - rl_tokens)
           /\ rl_burst' = IF tokens = RlCapacity * TokenUnit THEN 1
                          ELSE IF elapsed = 0 /\ rl_burst >= 1
                               THEN Min(rl_burst + 1, RlCapacity + 1)
                               ELSE 0
           /\ rl_last' = RlLast(FALSE, FALSE, elapsed, rl_last.called, rl_last.ok)
    /\ rl_last_update' = rl_clock
    /\ rl_pc' = [rl_pc EXCEPT ![t] = "check"]
    /\ UNCHANGED <<rl_clock, rl_lock, rl_granted>>
    /\ UNCHANGED notRl

\* if self.tokens >= 1: ... return False (the lock is released)
AllowCheck(t) ==
    /\ rl_pc[t] = "check"
    /\ IF HasToken(rl_tokens)
       THEN /\ rl_pc' = [rl_pc EXCEPT ![t] = "decrement"]
            /\ UNCHANGED <<rl_lock, rl_last>>
       ELSE /\ rl_pc' = [rl_pc EXCEPT ![t] = "idle"]
            /\ rl_lock' = 0
            /\ rl_last' = [rl_last EXCEPT !.called = TRUE, !.ok = FALSE]
    /\ UNCHANGED <<rl_clock, rl_tokens, rl_last_update, rl_granted, rl_supplied, rl_burst>>
    /\ UNCHANGED notRl

\* self.tokens -= 1; return True (the lock is released)
AllowDecrement(t) ==
    /\ rl_pc[t] = "decrement"
    /\ rl_tokens' = rl_tokens - TokenUnit
    /\ rl_granted' = rl_granted + 1
    /\ rl_last' = [rl_last EXCEPT !.called = TRUE, !.ok = TRUE]
    /\ rl_lock' = 0
    /\ rl_pc' = [rl_pc EXCEPT ![t] = "idle"]
    /\ UNCHANGED <<rl_clock, rl_last_update, rl_supplied, rl_burst>>
    /\ UNCHANGED notRl

(* ------------------------------------------------------------------ *)
(* AgentPool                                                           *)
(* ------------------------------------------------------------------ *)
LoadBalancingStrategy == {"round_robin", "least_loaded", "priority_based", "weighted"}

\* The capabilities and the task data callers pass.
CapabilityArgs == {<<"c1">>}
TaskDataArgs == {[priority |-> 1]}

\* The keys of AgentPool.agents
AgentIds(pool) == {pool[i].id : i \in 1..Len(pool)}

\* Position of an agent in the dictionary.
AgentIndex(pool, agent_id) == CHOOSE i \in 1..Len(pool) : pool[i].id = agent_id

\* AgentPool.get_agent
get_agent(pool, agent_id) == pool[AgentIndex(pool, agent_id)]

\* The record register_agent stores.
NewAgent(agent_id, capabilities, t) ==
    [id |-> agent_id, capabilities |-> capabilities, status |-> "idle",
     current_task |-> None, tasks_completed |-> 0, registered_time |-> t]

\* A capacity check that is off by one.
PoolIsFullOffByOne(pool) == Len(pool) > max_agents

\* register_agent: len(self.agents) >= self.max_agents
PoolIsFull(pool) == Len(pool) >= max_agents

\* self.agents[agent_id] = ...: a known key keeps its place, a new one goes last.
DictSet(pool, agent_id, record) ==
    IF agent_id \in AgentIds(pool)
    THEN [pool EXCEPT ![AgentIndex(pool, agent_id)] = record]
    ELSE Append(pool, record)

\* AgentPool.register_agent: the dictionary left and the value returned
register_agent(pool, agent_id, capabilities, t) ==
    IF PoolIsFull(pool)
    THEN [agents |-> pool, ok |-> FALSE]
    ELSE [agents |-> DictSet(pool, agent_id, NewAgent(agent_id, capabilities, t)),
          ok |-> TRUE]

\* AgentPool.unregister_agent
unregister_agent(pool, agent_id) ==
    IF agent_id \in AgentIds(pool)
    THEN [agents |-> SelectSeq(pool, LAMBDA a : a.id # agent_id), ok |-> TRUE]
    ELSE [agents |-> pool, ok |-> FALSE]

(* ------------------------------------------------------------------ *)
(* TaskDistributor                                                     *)
(* ------------------------------------------------------------------ *)
\* [a for a in agents.values() if a["status"] == "idle"]
IdleAgents(pool) == SelectSeq(pool, LAMBDA a : a.status = "idle")

\* TaskDistributor._round_robin: the agent selected (the index then grows by one)
round_robin(index, pool) == {pool[(index % Len(pool)) + 1].id}

\* TaskDistributor._least_loaded: min() keeps the first of the least loaded
least_loaded(pool) ==
    LET idle_agents == IdleAgents(pool)
    IN  IF idle_agents = <<>>
        THEN {None}
        ELSE LET k == CHOOSE i \in 1..Len(idle_agents) :
                        /\ \A j \in 1..Len(idle_agents) :
                              idle_agents[i].tasks_completed <= idle_agents[j].tasks_completed
                        /\ \A j \in 1..(i - 1) :
                              idle_agents[j].tasks_completed > idle_agents[i].tasks_completed
             IN  {idle_agents[k].id}

\* TaskDistributor._priority_based
priority_based(task, pool) ==
    LET idle_agents == IdleAgents(pool)
    IN  IF idle_agents = <<>> THEN {None} ELSE {idle_agents[1].id}

\* TaskDistributor._weighted: every weight is positive, so random.uniform can
\* select any idle agent.
weighted(pool) ==
    LET idle_agents == IdleAgents(pool)
    IN  IF idle_agents = <<>>
        THEN {None}
        ELSE {idle_agents[i].id : i \in 1..Len(idle_agents)}

\* TaskDistributor.distribute_task: the agents it can return
distribute_task(strat, index, task, pool) ==
    IF pool = <<>>
    THEN {None}
    ELSE CASE strat = "round_robin" -> round_robin(index, pool)
           [] strat = "least_loaded" -> least_loaded(pool)
           [] strat = "priority_based" -> priority_based(task, pool)
           [] strat = "weighted" -> weighted(pool)
           [] OTHER -> {None}

\* TaskDistributor.round_robin_index after distribute_task
IndexAfter(strat, index, pool) ==
    IF pool # <<>> /\ strat = "round_robin" THEN index + 1 ELSE index

(* ------------------------------------------------------------------ *)
(* ExecutionCoordinator                                                *)
(* ------------------------------------------------------------------ *)
\* TaskAssignment, as coordinate_execution builds it
TaskAssignment(task_id, agent_id, t, task_data) ==
    [task_id |-> task_id, agent_id |-> agent_id, assigned_time |-> t,
     priority |-> task_data.priority, estimated_duration |-> 0,
     required_capabilities |-> <<>>, status |-> "pending"]

\* self.assignments[task_id] = assignment
AssignmentSet(table, task_id, assignment) ==
    [k \in DOMAIN table \cup {task_id} |->
        IF k = task_id THEN assignment ELSE table[k]]

\* ExecutionCoordinator.coordinate_execution once the distributor returned
\* agent_id: the agent table and the assignment table left
coordinate_execution(pool, table, task_id, task_data, agent_id, t) ==
    IF agent_id = None
    THEN [agents |-> pool, assignments |-> table]
    ELSE [agents |->
             IF agent_id \in AgentIds(pool)
             THEN [pool EXCEPT ![AgentIndex(pool, agent_id)] =
                      [@ EXCEPT !.status = "busy", !.current_task = task_id]]
             ELSE pool,
          assignments |->
             AssignmentSet(table, task_id, TaskAssignment(task_id, agent_id, t, task_data))]

\* complete_task without the increment of the counter.
complete_task_no_increment(pool, table, task_id) ==
    IF task_id \notin DOMAIN table
    THEN [agents |-> pool, assignments |-> table, ok |-> FALSE]
    ELSE LET agent_id == table[task_id].agent_id
         IN  [agents |->
                 IF agent_id \in AgentIds(pool)
                 THEN [pool EXCEPT ![AgentIndex(pool, agent_id)] =
                          [@ EXCEPT !.status = "idle", !.current_task = None]]
                 ELSE pool,
              assignments |-> [table EXCEPT ![task_id].status = "completed"],
              ok |-> TRUE]

\* ExecutionCoordinator.complete_task
complete_task(pool, table, task_id) ==
    IF task_id \notin DOMAIN table
    THEN [agents |-> pool, assignments |-> table, ok |-> FALSE]
    ELSE LET agent_id == table[task_id].agent_id
         IN  [agents |->
                 IF agent_id \in AgentIds(pool)
                 THEN [pool EXCEPT ![AgentIndex(pool, agent_id)] =
                          [@ EXCEPT !.status = "idle", !.current_task = None,
                                    !.tasks_completed = @ + 1]]
                 ELSE pool,
              assignments |-> [table EXCEPT ![task_id].status = "completed"],
              ok |-> TRUE]

RECURSIVE TotalCompleted(_, _)
\* Sum of the completed-task counters from the i-th agent of the pool on.
TotalCompleted(pool, i) ==
    IF i > Len(pool) THEN 0 ELSE pool[i].tasks_completed + TotalCompleted(pool, i + 1)

\* What a pool or coordinator call was and what it returned: agent_id is the
\* agent coordinate_execution returned, task_id the task complete_task was called for.
PoolRet(op, agent_id, task_id, ok) ==
    [op |-> op, agent_id |-> agent_id, task_id |-> task_id, ok |-> ok]

(* ------------------------------------------------------------------ *)
(* Actions of the pool and the coordinator                             *)
(* ------------------------------------------------------------------ *)
\* TaskDistributor(strategy), built before the coordinator's first call.
NewTaskDistributor(strat) ==
    /\ pool_ret.op = "none"
    /\ strategy' = strat
    /\ round_robin_index' = 0
    /\ UNCHANGED <<pool_agents, assignments, pool_ret>>
    /\ UNCHANGED notPool

RegisterAgent(agent_id, capabilities) ==
    LET r == register_agent(pool_agents, agent_id, capabilities, now)
    IN  /\ pool_agents' = r.agents
        /\ pool_ret' = PoolRet("register_agent", None, None, r.ok)
        /\ UNCHANGED <<strategy, round_robin_index, assignments>>
        /\ UNCHANGED notPool

UnregisterAgent(agent_id) ==
    LET r == unregister_agent(pool_agents, agent_id)
    IN  /\ pool_agents' = r.agents
        /\ pool_ret' = PoolRet("unregister_agent", None, None, r.ok)
        /\ UNCHANGED <<strategy, round_robin_index, assignments>>
        /\ UNCHANGED notPool

CoordinateExecution(task_id, task_data) ==
    /\ round_robin_index < MaxRoundRobin
    /\ \E agent_id \in distribute_task(strategy, round_robin_index, task_data, pool_agents) :
          LET r == coordinate_execution(pool_agents, assignments, task_id, task_data,
                                        agent_id, now)
          IN  /\ pool_agents' = r.agents
              /\ assignments' = r.assignments
              /\ pool_ret' = PoolRet("coordinate_execution", agent_id, None,
                                     agent_id # None)
    /\ round_robin_index' = IndexAfter(strategy, round_robin_index, pool_agents)
    /\ UNCHANGED strategy
    /\ UNCHANGED notPool

\* coordinator.complete_task(task_id), as long as the counters of the pool
\* sum up to budget at most
CompleteTaskWithin(task_id, budget) ==
    LET r == complete_task(pool_agents, assignments, task_id)
    IN  /\ TotalCompleted(r.agents, 1) <= budget
        /\ pool_agents' = r.agents
        /\ assignments' = r.assignments
        /\ pool_ret' = PoolRet("complete_task", None, task_id, r.ok)
        /\ UNCHANGED <<strategy, round_robin_index>>
        /\ UNCHANGED notPool

CompleteTask(task_id) == CompleteTaskWithin(task_id, MaxCompleted)

(* ------------------------------------------------------------------ *)
(* HealthMonitor                                                       *)
(* ------------------------------------------------------------------ *)
\* Agent ids offered to the monitor.
HealthAgentIds == {"h1", "h2"}

\* The keys of HealthMonitor.agent_health
HealthIds(health) == {health[i].agent_id : i \in 1..Len(health)}

\* Position of an agent in the dictionary.
HealthIndex(health, agent_id) ==
    CHOOSE i \in 1..Len(health) : health[i].agent_id = agent_id

\* The record HealthMonitor.register_agent stores.
NewHealthRecord(agent_id, t) ==
    [agent_id |-> agent_id, last_heartbeat |-> t, status |-> "healthy",
     error_count |-> 0, success_count |-> 0]

\* HealthMonitor.register_agent: a known key keeps its place, a new one goes last.
hm_register_agent(health, agent_id, t) ==
    IF agent_id \in HealthIds(health)
    THEN [health EXCEPT ![HealthIndex(health, agent_id)] = NewHealthRecord(agent_id, t)]
    ELSE Append(health, NewHealthRecord(agent_id, t))

\* A heartbeat that stamps the time and leaves the status.
heartbeat_stamp_only(health, agent_id, t) ==
    IF agent_id \in HealthIds(health)
    THEN [health EXCEPT ![HealthIndex(health, agent_id)].last_heartbeat = t]
    ELSE health

\* HealthMonitor.heartbeat
heartbeat(health, agent_id, t) ==
    IF agent_id \in HealthIds(health)
    THEN [health EXCEPT ![HealthIndex(health, agent_id)] =
             [@ EXCEPT !.last_heartbeat = t, !.status = "healthy"]]
    ELSE health

\* HealthMonitor.record_error
record_error(health, agent_id) ==
    IF agent_id \in HealthIds(health)
    THEN [health EXCEPT ![HealthIndex(health, agent_id)] =
             [@ EXCEPT !.error_count = @ + 1, !.status = "degraded"]]
    ELSE health

\* HealthMonitor.record_success
record_success(health, agent_id) ==
    IF agent_id \in HealthIds(health)
    THEN [health EXCEPT ![HealthIndex(health, agent_id)].success_count = @ + 1]
    ELSE health

\* A timeout test that also fires at the timeout itself.
IsTimedOutInclusive(elapsed) == elapsed >= heartbeat_timeout

\* check_health: elapsed > self.heartbeat_timeout
IsTimedOut(elapsed) == elapsed > heartbeat_timeout

\* HealthMonitor.check_health, the loop under the lock with the local now t:
\* the dictionary left and the list returned
check_health(health, t) ==
    LET timed_out(m) == IsTimedOut(t - m.last_heartbeat)
        failed == SelectSeq(health, timed_out)
    IN  [agent_health |->
            [i \in 1..Len(health) |->
                IF timed_out(health[i])
                THEN [health[i] EXCEPT !.status = "failed"]
                ELSE health[i]],
         failed_agents |-> [i \in 1..Len(failed) |-> failed[i].agent_id]]

RECURSIVE TotalReports(_, _)
\* Sum of the error and success counters from the i-th record on.
TotalReports(health, i) ==
    IF i > Len(health)
    THEN 0
    ELSE health[i].error_count + health[i].success_count + TotalReports(health, i + 1)

\* The last check_health call ("none" before the first) and the list it returned.
HmRet(op, failed_agents) == [op |-> op, failed_agents |-> failed_agents]

\* The monitor's clock advances.
HmTick ==
    /\ hm_now < MaxHealthClock
    /\ hm_now' = hm_now + 1
    /\ UNCHANGED <<agent_health, hm_pc, hm_check_now, hm_ret, hm_revived>>
    /\ UNCHANGED notHealth

HmRegisterAgent(agent_id) ==
    /\ agent_health' = hm_register_agent(agent_health, agent_id, hm_now)
    /\ UNCHANGED <<hm_now, hm_pc, hm_check_now, hm_ret, hm_revived>>
    /\ UNCHANGED notHealth

Heartbeat(agent_id) ==
    /\ agent_health' = heartbeat(agent_health, agent_id, hm_now)
    /\ hm_revived' = IF \E i \in 1..Len(agent_health) :
                            /\ agent_health[i].agent_id = agent_id
                            /\ agent_health[i].status = "failed"
                     THEN hm_revived \cup {agent_id}
                     ELSE hm_revived
    /\ UNCHANGED <<hm_now, hm_pc, hm_check_now, hm_ret>>
    /\ UNCHANGED notHealth

RecordError(agent_id) ==
    /\ TotalReports(agent_health, 1) < MaxHealthCount
    /\ agent_health' = record_error(agent_health, agent_id)
    /\ UNCHANGED <<hm_now, hm_pc, hm_check_now, hm_ret, hm_revived>>
    /\ UNCHANGED notHealth

RecordSuccess(agent_id) ==
    /\ TotalReports(agent_health, 1) < MaxHealthCount
    /\ agent_health' = record_success(agent_health, agent_id)
    /\ UNCHANGED <<hm_now, hm_pc, hm_check_now, hm_ret, hm_revived>>
    /\ UNCHANGED notHealth

\* check_health: now = datetime.now(), read before the lock is taken
CheckHealthStart ==
    /\ hm_pc = "idle"
    /\ hm_pc' = "scan"
    /\ hm_check_now' = hm_now
    /\ UNCHANGED <<agent_health, hm_now, hm_ret, hm_revived>>
    /\ UNCHANGED notHealth

\* check_health: the loop under monitor_lock, and the return
CheckHealthScan ==
    /\ hm_pc = "scan"
    /\ LET r == check_health(agent_health, hm_check_now)
       IN  /\ agent_health' = r.agent_health
           /\ hm_ret' = HmRet("check_health", r.failed_agents)
    /\ hm_pc' = "idle"
    /\ UNCHANGED <<hm_now, hm_check_now, hm_revived>>
    /\ UNCHANGED notHealth

(* ------------------------------------------------------------------ *)
(* ErrorRecovery                                                       *)
(* ------------------------------------------------------------------ *)
RecoveryStrategy == {"restart", "reassign", "failover", "manual"}

\* Agent ids passed to attempt_recovery.
RecoveryAgentIds == {"r1", "r2"}

\* ErrorRecovery._log_recovery_attempt
log_recovery_attempt(history, agent_id, strat, success, error, t) ==
    Append(history, [agent_id |-> agent_id, strategy |-> strat, success |-> success,
                     error |-> error, timestamp |-> t])

\* ErrorRecovery.attempt_recovery: the log left and the value returned.
\* _restart_agent, _reassign_tasks and _failover_agent log a success and
\* return True; nothing in them raises, so the except branch is not taken.
attempt_recovery(history, agent_id, strat, t) ==
    IF strat \in {"restart", "reassign", "failover"}
    THEN [recovery_history |-> log_recovery_attempt(history, agent_id, strat, TRUE, None, t),
          ok |-> TRUE]
    ELSE [recovery_history |-> history, ok |-> FALSE]

AttemptRecovery(agent_id, strat) ==
    /\ Len(recovery_history) < MaxRecoveries
    /\ LET r == attempt_recovery(recovery_history, agent_id, strat, now)
       IN  /\ recovery_history' = r.recovery_history
           /\ recovery_ret' = [op |-> "attempt_recovery", agent_id |-> agent_id,
                               strategy |-> strat, ok |-> r.ok]
    /\ UNCHANGED notRecovery

(* ------------------------------------------------------------------ *)
(* FailoverManager                                                     *)
(* ------------------------------------------------------------------ *)
\* Agent ids passed to the failover manager, as primary and as backup.
FailoverIds == {"f1", "f2"}
BackupIds == {"b1", "b2"}

\* FailoverManager.register_backup
register_backup(map, primary_agent, backup_agent) ==
    [k \in DOMAIN map \cup {primary_agent} |->
        IF k = primary_agent
        THEN Append(IF k \in DOMAIN map THEN map[k] ELSE <<>>, backup_agent)
        ELSE map[k]]

\* A get_backup that returns the backup registered last.
get_backup_last(map, agent_id) ==
    LET backups == IF agent_id \in DOMAIN map THEN map[agent_id] ELSE <<>>
    IN  IF backups # <<>> THEN backups[Len(backups)] ELSE None

\* FailoverManager.get_backup
get_backup(map, agent_id) ==
    LET backups == IF agent_id \in DOMAIN map THEN map[agent_id] ELSE <<>>
    IN  IF backups # <<>> THEN backups[1] ELSE None

\* Truth value of an Optional[str]: None and the empty string are false.
Truthy(x) == x # None /\ x # ""

\* FailoverManager.execute_failover
execute_failover(map, failed_agent) ==
    LET backup == get_backup(map, failed_agent)
    IN  IF Truthy(backup) THEN backup ELSE None

FailoverRet(op, agent_id, result) == [op |-> op, agent_id |-> agent_id, result |-> result]

RegisterBackup(primary_agent, backup_agent) ==
    /\ primary_agent \in DOMAIN agent_backup_map
          => Len(agent_backup_map[primary_agent]) < MaxBackups
    /\ agent_backup_map' = register_backup(agent_backup_map, primary_agent, backup_agent)
    /\ first_backup' = IF first_backup[primary_agent] = None
                       THEN [first_backup EXCEPT ![primary_agent] = backup_agent]
                       ELSE first_backup
    /\ failover_ret' = FailoverRet("register_backup", primary_agent, None)
    /\ UNCHANGED notFailover

GetBackup(agent_id) ==
    /\ failover_ret' = FailoverRet("get_backup", agent_id,
                                   get_backup(agent_backup_map, agent_id))
    /\ UNCHANGED <<agent_backup_map, first_backup>>
    /\ UNCHANGED notFailover

ExecuteFailover(failed_agent) ==
    /\ failover_ret' = FailoverRet("execute_failover", failed_agent,
                                   execute_failover(agent_backup_map, failed_agent))
    /\ UNCHANGED <<agent_backup_map, first_backup>>
    /\ UNCHANGED notFailover

(* ------------------------------------------------------------------ *)
(* Workflow, Task                                                      *)
(* ------------------------------------------------------------------ *)
\* TaskStatus
TaskStatus ==
    [PENDING |-> "pending", READY |-> "ready", RUNNING |-> "running",
     COMPLETED |-> "completed", FAILED |-> "failed", SKIPPED |-> "skipped",
     BLOCKED |-> "blocked"]

\* The task ids of one run: the k-th task added to the workflow is WfTaskIds[k].
\* A dependency may name any of them, a task not (yet) in the workflow included.
WfTaskIds == <<"A", "B", "C", "D">>
WfIdSet == {WfTaskIds[i] : i \in DOMAIN WfTaskIds}
\* Task.dependencies of a new task
DependencyArgs == {d \in SUBSET WfIdSet : Cardinality(d) <= MaxDeps}
\* Task.priority of a new task: the default and one that runs earlier
TaskPriorityArgs == {1, DEFAULT_PRIORITY}

\* Task(task_id, priority, dependencies): status is PENDING
NewTask(task_id, priority, dependencies) ==
    [task_id |-> task_id, status |-> TaskStatus.PENDING, priority |-> priority,
     dependencies |-> dependencies]

\* The keys of Workflow.tasks
WorkflowIds(tasks) == {tasks[i].task_id : i \in DOMAIN tasks}
TaskIndex(tasks, task_id) == CHOOSE i \in DOMAIN tasks : tasks[i].task_id = task_id

\* Workflow.add_task: self.tasks[task.task_id] = task
add_task(tasks, task) ==
    IF task.task_id \in WorkflowIds(tasks)
    THEN [tasks EXCEPT ![TaskIndex(tasks, task.task_id)] = task]
    ELSE Append(tasks, task)

(* ------------------------------------------------------------------ *)
(* DependencyResolver                                                  *)
(* ------------------------------------------------------------------ *)
\* defaultdict(set) with no key
EmptyGraph == [n \in WfIdSet |-> {}]

\* The orders in which the interpreter may iterate a set of task ids: a
\* set s is iterated in the order its members have in `order`.
Reverse(s) == [i \in 1..Len(s) |-> s[Len(s) + 1 - i]]
IterationOrders == {WfTaskIds, Reverse(WfTaskIds)}
Ordered(s, order) == SelectSeq(order, LAMBDA x : x \in s)

\* build_graph, the two loops: dependency_graph[task_id].add(dep_id)
DependencyGraphOf(tasks) ==
    [n \in WfIdSet |->
        IF n \in WorkflowIds(tasks) THEN tasks[TaskIndex(tasks, n)].dependencies ELSE {}]
\* build_graph, the two loops: reverse_graph[dep_id].add(task_id)
ReverseGraphOf(tasks) ==
    [n \in WfIdSet |-> {tasks[i].task_id : i \in {j \in DOMAIN tasks : n \in tasks[j].dependencies}}]

\* _has_cycle.dfs(node) and its loop over the neighbours left to visit; st
\* holds visited, rec_stack and whether dfs returned True.
RECURSIVE dfs(_, _, _, _)
RECURSIVE dfs_loop(_, _, _, _)
dfs(graph, order, node, st) ==
    LET entered == [st EXCEPT !.visited = @ \cup {node}, !.rec_stack = @ \cup {node}]
        after == dfs_loop(graph, order, Ordered(graph[node], order), entered)
    IN  IF after.found THEN after ELSE [after EXCEPT !.rec_stack = @ \ {node}]
dfs_loop(graph, order, neighbors, st) ==
    IF neighbors = <<>> THEN st
    ELSE LET neighbor == Head(neighbors) IN
         IF neighbor \notin st.visited
         THEN LET r == dfs(graph, order, neighbor, st)
              IN  IF r.found THEN r ELSE dfs_loop(graph, order, Tail(neighbors), r)
         ELSE IF neighbor \in st.rec_stack
         THEN [st EXCEPT !.found = TRUE]
         ELSE dfs_loop(graph, order, Tail(neighbors), st)

\* _has_cycle, the loop over the roots left to try
RECURSIVE has_cycle_from(_, _, _, _)
has_cycle_from(roots, graph, order, st) ==
    IF roots = <<>> THEN FALSE
    ELSE IF Head(roots) \in st.visited
    THEN has_cycle_from(Tail(roots), graph, order, st)
    ELSE LET r == dfs(graph, order, Head(roots), st)
         IN  r.found \/ has_cycle_from(Tail(roots), graph, order, r)

TaskIdSeq(tasks) == [i \in DOMAIN tasks |-> tasks[i].task_id]
NoneVisited == [visited |-> {}, rec_stack |-> {}, found |-> FALSE]

\* A cycle search that tries the first task only.
has_cycle_first_root(tasks, graph, order) ==
    has_cycle_from(SubSeq(TaskIdSeq(tasks), 1, Min(1, Len(tasks))), graph, order, NoneVisited)

\* DependencyResolver._has_cycle: for task_id in workflow.tasks
has_cycle(tasks, graph, order) ==
    has_cycle_from(TaskIdSeq(tasks), graph, order, NoneVisited)

\* DependencyResolver.build_graph: the graphs left and the value returned
build_graph(tasks, order) ==
    [dependency_graph |-> DependencyGraphOf(tasks),
     reverse_graph |-> ReverseGraphOf(tasks),
     result |-> ~has_cycle(tasks, DependencyGraphOf(tasks), order)]

\* get_critical_path.calculate_length and its loop over the dependencies
\* left; path_lengths is the dict, in insertion order.
PathLengthKeys(path_lengths) == {path_lengths[i].task_id : i \in DOMAIN path_lengths}
PathLength(path_lengths, task_id) ==
    path_lengths[CHOOSE i \in DOMAIN path_lengths : path_lengths[i].task_id = task_id].length
MaxOf(s) == IF s = {} THEN 0 ELSE CHOOSE m \in s : \A x \in s : x <= m
RECURSIVE calculate_length(_, _, _, _)
RECURSIVE calculate_deps(_, _, _, _)
calculate_length(graph, order, task_id, path_lengths) ==
    IF task_id \in PathLengthKeys(path_lengths) THEN path_lengths
    ELSE LET done == calculate_deps(graph, order, Ordered(graph[task_id], order), path_lengths)
             max_dep_length == MaxOf({PathLength(done, d) : d \in graph[task_id]})
         IN  Append(done, [task_id |-> task_id, length |-> max_dep_length + 1])
calculate_deps(graph, order, deps, path_lengths) ==
    IF deps = <<>> THEN path_lengths
    ELSE calculate_deps(graph, order, Tail(deps),
                        calculate_length(graph, order, Head(deps), path_lengths))

\* get_critical_path: for task_id in workflow.tasks: calculate_length(task_id)
RECURSIVE calculate_all(_, _, _, _)
calculate_all(ids, graph, order, path_lengths) ==
    IF ids = <<>> THEN path_lengths
    ELSE calculate_all(Tail(ids), graph, order,
                       calculate_length(graph, order, Head(ids), path_lengths))

\* sorted(path_lengths.items(), key=lambda x: x[1], reverse=True): a stable
\* sort, so items of one length keep their order in the dict
RECURSIVE SortedByLength(_, _)
SortedByLength(path_lengths, length) ==
    IF length = 0 THEN <<>>
    ELSE SelectSeq(path_lengths, LAMBDA item : item.length = length)
         \o SortedByLength(path_lengths, length - 1)

\* get_critical_path, the loop that builds the path
RECURSIVE collect_path(_, _, _)
collect_path(items, current_length, critical_path) ==
    IF items = <<>> THEN critical_path
    ELSE IF Head(items).length = current_length
    THEN collect_path(Tail(items), current_length - 1,
                      Append(critical_path, Head(items).task_id))
    ELSE collect_path(Tail(items), current_length, critical_path)

\* DependencyResolver.get_critical_path, on a dependency_graph with no cycle
get_critical_path(tasks, graph, order) ==
    LET path_lengths == calculate_all(TaskIdSeq(tasks), graph, order, <<>>)
        current_length == MaxOf({path_lengths[i].length : i \in DOMAIN path_lengths})
    IN  collect_path(SortedByLength(path_lengths, current_length), current_length, <<>>)

(* ------------------------------------------------------------------ *)
(* WorkflowManager.validate_workflow                                   *)
(* ------------------------------------------------------------------ *)
\* A check of the dependencies that accepts every id.
dependencies_exist_unchecked(tasks) == TRUE

\* validate_workflow, the loop: no dep_id is missing from workflow.tasks
dependencies_exist(tasks) ==
    \A i \in DOMAIN tasks : \A dep_id \in tasks[i].dependencies :
        dep_id \in WorkflowIds(tasks)

\* WorkflowManager.validate_workflow: the resolver's graphs left and the
\* value returned
validate_workflow(tasks, graph, reverse, order) ==
    IF tasks = <<>>
    THEN [dependency_graph |-> graph, reverse_graph |-> reverse, result |-> FALSE]
    ELSE LET built == build_graph(tasks, order)
         IN  [built EXCEPT !.result = built.result /\ dependencies_exist(tasks)]

\* The last call of the workflow engine and what it returned.
WfRet(op, result) == [op |-> op, result |-> result]

\* workflow.add_task(Task(...)): the next task of the run
AddTask(priority, dependencies) ==
    /\ Len(wf_tasks) < Len(WfTaskIds)
    /\ wf_tasks' = add_task(wf_tasks,
                            NewTask(WfTaskIds[Len(wf_tasks) + 1], priority, dependencies))
    /\ wf_ret' = WfRet("add_task", None)
    /\ UNCHANGED <<dependency_graph, reverse_graph, ready_queue, task_status,
                   execution_order>>
    /\ UNCHANGED notWorkflow

\* resolver.build_graph(workflow)
BuildGraph(order) ==
    LET built == build_graph(wf_tasks, order)
    IN  /\ dependency_graph' = built.dependency_graph
        /\ reverse_graph' = built.reverse_graph
        /\ wf_ret' = WfRet("build_graph", built.result)
        /\ UNCHANGED <<wf_tasks, ready_queue, task_status, execution_order>>
        /\ UNCHANGED notWorkflow

\* manager.validate_workflow(workflow)
ValidateWorkflow(order) ==
    LET valid == validate_workflow(wf_tasks, dependency_graph, reverse_graph, order)
    IN  /\ dependency_graph' = valid.dependency_graph
        /\ reverse_graph' = valid.reverse_graph
        /\ wf_ret' = WfRet("validate_workflow", valid.result)
        /\ UNCHANGED <<wf_tasks, ready_queue, task_status, execution_order>>
        /\ UNCHANGED notWorkflow

\* resolver.get_critical_path(workflow); on a dependency_graph with a cycle
\* calculate_length recurses until the interpreter raises RecursionError
GetCriticalPath(order) ==
    /\ wf_ret' = WfRet("get_critical_path",
                       IF has_cycle(wf_tasks, dependency_graph, order)
                       THEN "RecursionError"
                       ELSE get_critical_path(wf_tasks, dependency_graph, order))
    /\ UNCHANGED <<wf_tasks, dependency_graph, reverse_graph, ready_queue,
                   task_status, execution_order>>
    /\ UNCHANGED notWorkflow

(* ------------------------------------------------------------------ *)
(* TaskScheduler, WorkflowManager.get_execution_plan                   *)
(* ------------------------------------------------------------------ *)
\* The values of key, smallest first, as a list.
RECURSIVE Ascending(_)
Ascending(keys) ==
    IF keys = {} THEN <<>>
    ELSE LET least == CHOOSE k \in keys : \A x \in keys : k <= x
         IN  <<least>> \o Ascending(keys \ {least})

\* The tasks with each of the priorities in turn, in their order in the dict.
RECURSIVE ConcatByPriority(_, _)
ConcatByPriority(tasks, priorities) ==
    IF priorities = <<>> THEN <<>>
    ELSE SelectSeq(tasks, LAMBDA t : t.priority = Head(priorities))
         \o ConcatByPriority(tasks, Tail(priorities))

\* A sort that puts the largest priority number first.
sorted_tasks_descending(tasks) ==
    ConcatByPriority(tasks, Reverse(Ascending({tasks[i].priority : i \in DOMAIN tasks})))

\* sorted(workflow.tasks.values(), key=lambda t: t.priority): a stable sort
sorted_tasks(tasks) ==
    ConcatByPriority(tasks, Ascending({tasks[i].priority : i \in DOMAIN tasks}))

\* TaskScheduler.schedule: the workflow's tasks and the scheduler's fields
\* left, and the list returned
schedule(tasks, queue) ==
    LET scheduled == TaskIdSeq(SelectSeq(sorted_tasks(tasks),
                                         LAMBDA t : t.status = TaskStatus.PENDING))
    IN  [tasks |-> [i \in DOMAIN tasks |->
                       IF tasks[i].status = TaskStatus.PENDING
                       THEN [tasks[i] EXCEPT !.status = TaskStatus.READY]
                       ELSE tasks[i]],
         task_status |-> [n \in WfIdSet |->
                             IF n \in WorkflowIds(tasks)
                             THEN tasks[TaskIndex(tasks, n)].status
                             ELSE None],
         ready_queue |-> queue \o scheduled,
         execution_order |-> scheduled]

\* TaskScheduler.mark_failed
mark_failed(status, task_id) == [status EXCEPT ![task_id] = TaskStatus.FAILED]

\* Optional[List[str]]
NoPlan == [is_none |-> TRUE, plan |-> <<>>]
Plan(plan) == [is_none |-> FALSE, plan |-> plan]

\* An execution plan that is scheduled before the workflow is validated.
get_execution_plan_unvalidated(tasks, graph, reverse, queue, status, execution, order) ==
    LET valid == validate_workflow(tasks, graph, reverse, order)
        done == schedule(tasks, queue)
    IN  [tasks |-> done.tasks, dependency_graph |-> valid.dependency_graph,
         reverse_graph |-> valid.reverse_graph, ready_queue |-> done.ready_queue,
         task_status |-> done.task_status, execution_order |-> done.execution_order,
         result |-> IF valid.result THEN Plan(done.execution_order) ELSE NoPlan]

\* WorkflowManager.get_execution_plan: everything it may change, and the
\* value returned
get_execution_plan(tasks, graph, reverse, queue, status, execution, order) ==
    LET valid == validate_workflow(tasks, graph, reverse, order)
        done == schedule(tasks, queue)
    IN  IF ~valid.result
        THEN [tasks |-> tasks, dependency_graph |-> valid.dependency_graph,
              reverse_graph |-> valid.reverse_graph, ready_queue |-> queue,
              task_status |-> status, execution_order |-> execution,
              result |-> NoPlan]
        ELSE [tasks |-> done.tasks, dependency_graph |-> valid.dependency_graph,
              reverse_graph |-> valid.reverse_graph, ready_queue |-> done.ready_queue,
              task_status |-> done.task_status, execution_order |-> done.execution_order,
              result |-> Plan(done.execution_order)]

\* The tasks given to the scheduler, and their dependencies: none, or one
\* of the first two tasks.
SchedulerTaskIds == <<"A", "B", "C">>
SchedulerDependencyArgs == {{}, {"A"}, {"B"}}

\* scheduler.task_status entries that are FAILED
FailedMarks == {n \in WfIdSet : task_status[n] = TaskStatus.FAILED}

\* scheduler.schedule(workflow)
Schedule ==
    LET done == schedule(wf_tasks, ready_queue)
    IN  /\ wf_tasks' = done.tasks
        /\ task_status' = done.task_status
        /\ ready_queue' = done.ready_queue
        /\ execution_order' = done.execution_order
        /\ wf_ret' = WfRet("schedule", done.execution_order)
        /\ UNCHANGED <<dependency_graph, reverse_graph>>
        /\ UNCHANGED notWorkflow

\* manager.get_execution_plan(workflow)
GetExecutionPlan(order) ==
    LET got == get_execution_plan(wf_tasks, dependency_graph, reverse_graph,
                                  ready_queue, task_status, execution_order, order)
    IN  /\ wf_tasks' = got.tasks
        /\ dependency_graph' = got.dependency_graph
        /\ reverse_graph' = got.reverse_graph
        /\ task_status' = got.task_status
        /\ ready_queue' = got.ready_queue
        /\ execution_order' = got.execution_order
        /\ wf_ret' = WfRet("get_execution_plan", got.result)
        /\ UNCHANGED notWorkflow

\* scheduler.mark_failed(task_id), for a task of the workflow
MarkFailed(task_id) ==
    /\ task_id \in WorkflowIds(wf_tasks)
    /\ Cardinality(FailedMarks \cup {task_id}) <= MaxFailed
    /\ task_status' = mark_failed(task_status, task_id)
    /\ wf_ret' = WfRet("mark_failed", None)
    /\ UNCHANGED <<wf_tasks, dependency_graph, reverse_graph, ready_queue,
                   execution_order>>
    /\ UNCHANGED notWorkflow

(* ------------------------------------------------------------------ *)
(* WorkflowExecutor                                                    *)
(* ------------------------------------------------------------------ *)
\* WorkflowState
WorkflowState ==
    [PENDING |-> "pending", RUNNING |-> "running", PAUSED |-> "paused",
     COMPLETED |-> "completed", FAILED |-> "failed", CANCELLED |-> "cancelled",
     RETRY |-> "retry"]

\* ExecutionContext, with the max_retries it is given; metrics holds
\* ExecutionMetrics.execution_count and retry_count, and execution_history
\* the status of each entry.
NewExecutionContext(max_retries) ==
    [state |-> WorkflowState.PENDING, execution_history |-> <<>>,
     metrics |-> [execution_count |-> 0, retry_count |-> 0],
     max_retries |-> max_retries]

\* WorkflowExecutor.execute_action: the context left, for an action that
\* returns (ok) or raises (not ok)
execute_action(context, ok) ==
    IF ok
    THEN [context EXCEPT !.state = WorkflowState.RUNNING,
                         !.execution_history = Append(@, "success"),
                         !.metrics.execution_count = @ + 1]
    ELSE [context EXCEPT !.state = WorkflowState.RUNNING,
                         !.execution_history = Append(@, "error")]

\* WorkflowExecutor.execute_with_retry, from the given attempt of the loop
\* on; outcomes[k] tells whether the k-th call of the action returns. The
\* context left, the success flag returned and the calls of the action made.
RECURSIVE execute_with_retry(_, _, _)
execute_with_retry(context, attempt, outcomes) ==
    IF attempt >= context.max_retries
    THEN [context |-> [context EXCEPT !.state = WorkflowState.FAILED],
          success |-> FALSE, attempts |-> attempt]
    ELSE LET executed == execute_action(context, outcomes[attempt + 1])
         IN  IF outcomes[attempt + 1]
             THEN [context |-> executed, success |-> TRUE, attempts |-> attempt + 1]
             ELSE execute_with_retry(
                      IF attempt < context.max_retries - 1
                      THEN [executed EXCEPT !.state = WorkflowState.RETRY,
                                            !.metrics.retry_count = @ + 1]
                      ELSE executed,
                      attempt + 1, outcomes)

\* The last execute_with_retry call: the success flag returned, the calls of
\* the action made, and metrics.retry_count when it was called.
ExecRet(op, success, attempts, retry_count_before) ==
    [op |-> op, success |-> success, attempts |-> attempts,
     retry_count_before |-> retry_count_before]

\* context = executor.create_context(); context.max_retries = max_retries
CreateContext(max_retries) ==
    /\ contexts = <<>>
    /\ contexts' = <<NewExecutionContext(max_retries)>>
    /\ exec_ret' = ExecRet("create_context", FALSE, 0, 0)
    /\ UNCHANGED notExecutor

\* executor.execute_with_retry(context, action), the action returning or
\* raising at each call as outcomes tells
ExecuteWithRetry(outcomes) ==
    /\ contexts # <<>>
    /\ Len(outcomes) = contexts[1].max_retries
    /\ Len(contexts[1].execution_history) + Len(outcomes) <= MaxHistoryEntries
    /\ LET done == execute_with_retry(contexts[1], 0, outcomes)
       IN  /\ contexts' = <<done.context>>
           /\ exec_ret' = ExecRet("execute_with_retry", done.success, done.attempts,
                                  contexts[1].metrics.retry_count)
    /\ UNCHANGED notExecutor

(* ------------------------------------------------------------------ *)
(* StateMachine                                                        *)
(* ------------------------------------------------------------------ *)
\* StateType
StateType ==
    [INITIAL |-> "initial", INTERMEDIATE |-> "intermediate", TERMINAL |-> "terminal",
     ERROR |-> "error", WAIT |-> "wait"]

\* The state names of one run; the machine is built as StateMachine("INITIAL").
StateNames == {"INITIAL", "RUNNING"}
\* define_state: the state_type given
StateTypeArgs == {StateType.INTERMEDIATE}
\* transition: the context given, None (the default) or a non-empty one
ContextArgs == {None, "ctx"}
\* StateTransition.condition and the guard clauses: a predicate that accepts
\* every context or one that accepts none; None is no condition.
ConditionArgs == {None, "always", "never"}
GuardClauseArgs == {<<>>, <<"always">>, <<"always", "never">>}
\* predicate(context)
Holds(predicate, context) == predicate = "always"

\* StateTransition(from_state, to_state, condition, action, guard_clauses);
\* action tells whether the transition has one.
StateTransition(from_state, to_state, condition, action, guard_clauses) ==
    [from_state |-> from_state, to_state |-> to_state, condition |-> condition,
     action |-> action, guard_clauses |-> guard_clauses]

\* An audit entry that is marked failed whatever the outcome.
audit_entry_never_successful(from_state, to_state, trigger, user, success) ==
    [from_state |-> from_state, to_state |-> to_state, trigger |-> trigger,
     user |-> user, success |-> FALSE]

\* AuditEntry(from_state, to_state, trigger, user, success)
AuditEntry(from_state, to_state, trigger, user, success) ==
    [from_state |-> from_state, to_state |-> to_state, trigger |-> trigger,
     user |-> user, success |-> success]

\* StateMachine.define_state
define_state(declared, state, state_type) == [declared EXCEPT ![state] = state_type]

\* StateMachine.add_transition
add_transition(declared, edges, transition) ==
    IF declared[transition.from_state] = None \/ declared[transition.to_state] = None
    THEN edges
    ELSE [edges EXCEPT ![transition.from_state] = Append(@, transition)]

\* transition, the test of one edge:
\* trans.condition is None or (context and trans.condition(context))
condition_passes(trans, context) ==
    \/ trans.condition = None
    \/ Truthy(context) /\ Holds(trans.condition, context)

\* transition, the test of one edge: all(guard(context) for guard in guard_clauses)
guards_pass(trans, context) ==
    \A k \in DOMAIN trans.guard_clauses : Holds(trans.guard_clauses[k], context)

\* transition, the loop: the position of the first edge taken, 0 for none
first_match(edges, context) ==
    LET taken == {k \in DOMAIN edges :
                     condition_passes(edges[k], context) /\ guards_pass(edges[k], context)}
    IN  IF taken = {} THEN 0 ELSE CHOOSE k \in taken : \A j \in taken : k <= j

\* An audit entry for a refused transition that is marked successful.
no_transition_entry_marked_success(from_state, trigger, user) ==
    AuditEntry(from_state, "", trigger, user, TRUE)

\* transition: the entry appended when no edge is taken
no_transition_entry(from_state, trigger, user) ==
    AuditEntry(from_state, "", trigger, user, FALSE)

\* StateMachine.transition: the current state and the audit trail left, the
\* value returned and what was run, in order
transition(current, edges, entry_handlers, exit_handlers, audit, trigger, context, user) ==
    LET k == first_match(edges[current], context)
        next_state == edges[current][k].to_state
    IN  IF k = 0
        THEN [current_state |-> current,
              audit_trail |-> Append(audit, no_transition_entry(current, trigger, user)),
              result |-> FALSE, ran |-> <<>>]
        ELSE [current_state |-> next_state,
              audit_trail |-> Append(audit, AuditEntry(current, next_state, trigger,
                                                       user, TRUE)),
              result |-> TRUE,
              ran |-> (IF current \in exit_handlers THEN <<<<"exit", current>>>> ELSE <<>>)
                      \o (IF edges[current][k].action
                          THEN <<<<"action", next_state>>>> ELSE <<>>)
                      \o (IF next_state \in entry_handlers
                          THEN <<<<"entry", next_state>>>> ELSE <<>>)]

\* The last call of the state machine: for transition, the context given,
\* the value returned and the handlers and actions run.
SmRet(op, context, result, ran) ==
    [op |-> op, context |-> context, result |-> result, ran |-> ran]

\* The transitions the machine holds.
EdgeCount == Cardinality({<<s, k>> \in StateNames \X (1..MaxEdges) : k <= Len(transitions[s])})

\* machine.define_state(state, state_type)
DefineState(state, state_type) ==
    /\ states' = define_state(states, state, state_type)
    /\ sm_ret' = SmRet("define_state", None, FALSE, <<>>)
    /\ UNCHANGED <<current_state, transitions, state_entry_handlers,
                   state_exit_handlers, audit_trail>>
    /\ UNCHANGED notMachine

\* machine.add_transition(StateTransition(...))
AddTransition(from_state, to_state, condition, action, guard_clauses) ==
    /\ EdgeCount < MaxEdges
    /\ transitions' = add_transition(states, transitions,
                          StateTransition(from_state, to_state, condition, action,
                                          guard_clauses))
    /\ sm_ret' = SmRet("add_transition", None, FALSE, <<>>)
    /\ UNCHANGED <<current_state, states, state_entry_handlers, state_exit_handlers,
                   audit_trail>>
    /\ UNCHANGED notMachine

\* machine.register_entry_handler(state, handler)
RegisterEntryHandler(state) ==
    /\ state_entry_handlers' = state_entry_handlers \cup {state}
    /\ sm_ret' = SmRet("register_entry_handler", None, FALSE, <<>>)
    /\ UNCHANGED <<current_state, states, transitions, state_exit_handlers, audit_trail>>
    /\ UNCHANGED notMachine

\* machine.register_exit_handler(state, handler)
RegisterExitHandler(state) ==
    /\ state_exit_handlers' = state_exit_handlers \cup {state}
    /\ sm_ret' = SmRet("register_exit_handler", None, FALSE, <<>>)
    /\ UNCHANGED <<current_state, states, transitions, state_entry_handlers, audit_trail>>
    /\ UNCHANGED notMachine

\* machine.transition(trigger, context, user)
Transition(trigger, context, user) ==
    /\ Len(audit_trail) < MaxAudit
    /\ LET moved == transition(current_state, transitions, state_entry_handlers,
                               state_exit_handlers, audit_trail, trigger, context, user)
       IN  /\ current_state' = moved.current_state
           /\ audit_trail' = moved.audit_trail
           /\ sm_ret' = SmRet("transition", context, moved.result, moved.ran)
    /\ UNCHANGED <<states, transitions, state_entry_handlers, state_exit_handlers>>
    /\ UNCHANGED notMachine

(* ------------------------------------------------------------------ *)
(* StateMachine.transition, statement by statement                     *)
(* ------------------------------------------------------------------ *)
\* The threads that call transition on the one machine.
SmThreads == {"t1", "t2"}

\* The locals of a transition call: the statement it is at, its arguments,
\* next_state and old_state, whether the edge taken has an action, what it
\* ran (the handler, the current state and the audit length it saw) and how
\* it ended ("True", "False", "raised", "none" while it runs or before any).
IdleCall ==
    [pc |-> "idle", trigger |-> None, context |-> None, user |-> None,
     next_state |-> None, action |-> FALSE, old_state |-> None, ran |-> <<>>,
     outcome |-> "none"]

\* What a handler, action or callback sees when it is called.
Seen(what) == <<what, current_state, Len(audit_trail)>>

\* The statements of a successful transition with the entry handler called
\* before the state is updated.
statement_after_entry_first(pc) ==
    CASE pc = "exit" -> "action"
      [] pc = "action" -> "entry"
      [] pc = "entry" -> "update"
      [] pc = "update" -> "audit"
      [] pc = "audit" -> "callbacks"
      [] pc = "callbacks" -> "idle"

\* transition, once an edge is taken: the statement that follows each one
statement_after(pc) ==
    CASE pc = "exit" -> "action"
      [] pc = "action" -> "update"
      [] pc = "update" -> "entry"
      [] pc = "entry" -> "audit"
      [] pc = "audit" -> "callbacks"
      [] pc = "callbacks" -> "idle"

\* The call of thread t goes on to the next statement, having run what.
Proceed(t, what) ==
    sm_calls' = [sm_calls EXCEPT
                    ![t].pc = statement_after(@),
                    ![t].ran = IF what = None THEN @ ELSE Append(@, Seen(what)),
                    ![t].outcome = IF statement_after(sm_calls[t].pc) = "idle"
                                   THEN "True" ELSE @]

\* The handler, action or callback what raises: nothing catches it, and the
\* call of thread t ends there.
Raise(t, what) ==
    sm_calls' = [sm_calls EXCEPT ![t].pc = "idle", ![t].ran = Append(@, Seen(what)),
                                 ![t].outcome = "raised"]

\* The calls that are under way.
Running == {t \in SmThreads : sm_calls[t].pc # "idle"}

\* machine.callbacks[f"{old}_to_{new}"].append(callback)
RegisterCallback(old_state, new_state) ==
    /\ Running = {}
    /\ sm_callbacks' = sm_callbacks \cup {<<old_state, new_state>>}
    /\ UNCHANGED <<sm_calls, machineVars>>
    /\ UNCHANGED notSteps

\* transition: the call and its loop over the edges of the current state
Call(t, trigger, context, user) ==
    /\ sm_calls[t].pc = "idle"
    /\ Len(audit_trail) + Cardinality(Running) < MaxAudit
    /\ LET k == first_match(transitions[current_state], context)
       IN  sm_calls' = [sm_calls EXCEPT ![t] =
               [pc |-> IF k = 0 THEN "fail" ELSE "exit",
                trigger |-> trigger, context |-> context, user |-> user,
                next_state |-> IF k = 0 THEN None
                               ELSE transitions[current_state][k].to_state,
                action |-> k # 0 /\ transitions[current_state][k].action,
                old_state |-> None, ran |-> <<>>, outcome |-> "none"]]
    /\ UNCHANGED <<sm_callbacks, machineVars>>
    /\ UNCHANGED notSteps

\* transition, if not next_state: the failure entry and return False
Fail(t) ==
    /\ sm_calls[t].pc = "fail"
    /\ audit_trail' = Append(audit_trail,
                             no_transition_entry(current_state, sm_calls[t].trigger,
                                                 sm_calls[t].user))
    /\ sm_calls' = [sm_calls EXCEPT ![t].pc = "idle", ![t].outcome = "False"]
    /\ UNCHANGED <<current_state, states, transitions, state_entry_handlers,
                   state_exit_handlers, sm_ret, sm_callbacks>>
    /\ UNCHANGED notSteps

\* transition: the exit handler of the current state, if it has one
ExitHandler(t, raises) ==
    /\ sm_calls[t].pc = "exit"
    /\ raises => current_state \in state_exit_handlers
    /\ IF raises THEN Raise(t, "exit")
       ELSE Proceed(t, IF current_state \in state_exit_handlers THEN "exit" ELSE None)
    /\ UNCHANGED <<sm_callbacks, machineVars>>
    /\ UNCHANGED notSteps

\* transition: the action of the edge taken, if it has one
EdgeAction(t, raises) ==
    /\ sm_calls[t].pc = "action"
    /\ raises => sm_calls[t].action
    /\ IF raises THEN Raise(t, "action")
       ELSE Proceed(t, IF sm_calls[t].action THEN "action" ELSE None)
    /\ UNCHANGED <<sm_callbacks, machineVars>>
    /\ UNCHANGED notSteps

\* transition: old_state = self.current_state; self.current_state = next_state
UpdateState(t) ==
    /\ sm_calls[t].pc = "update"
    /\ current_state' = sm_calls[t].next_state
    /\ sm_calls' = [sm_calls EXCEPT ![t].pc = statement_after(@),
                                    ![t].old_state = current_state]
    /\ UNCHANGED <<states, transitions, state_entry_handlers, state_exit_handlers,
                   audit_trail, sm_ret, sm_callbacks>>
    /\ UNCHANGED notSteps

\* transition: the entry handler of next_state, if it has one
EntryHandler(t, raises) ==
    /\ sm_calls[t].pc = "entry"
    /\ raises => sm_calls[t].next_state \in state_entry_handlers
    /\ IF raises THEN Raise(t, "entry")
       ELSE Proceed(t, IF sm_calls[t].next_state \in state_entry_handlers
                       THEN "entry" ELSE None)
    /\ UNCHANGED <<sm_callbacks, machineVars>>
    /\ UNCHANGED notSteps

\* transition: the success entry is appended to the audit trail
AppendAudit(t) ==
    /\ sm_calls[t].pc = "audit"
    /\ audit_trail' = Append(audit_trail,
                             AuditEntry(sm_calls[t].old_state, sm_calls[t].next_state,
                                        sm_calls[t].trigger, sm_calls[t].user, TRUE))
    /\ sm_calls' = [sm_calls EXCEPT ![t].pc = statement_after(@)]
    /\ UNCHANGED <<current_state, states, transitions, state_entry_handlers,
                   state_exit_handlers, sm_ret, sm_callbacks>>
    /\ UNCHANGED notSteps

\* transition: the callbacks of (old_state, next_state), then return True
Callbacks(t, raises) ==
    /\ sm_calls[t].pc = "callbacks"
    /\ raises => <<sm_calls[t].old_state, sm_calls[t].next_state>> \in sm_callbacks
    /\ IF raises THEN Raise(t, "callback")
       ELSE Proceed(t, IF <<sm_calls[t].old_state, sm_calls[t].next_state>>
                          \in sm_callbacks
                       THEN "callback" ELSE None)
    /\ UNCHANGED <<sm_callbacks, machineVars>>
    /\ UNCHANGED notSteps

(* ------------------------------------------------------------------ *)
(* StateTracker, StateValidator, AdvancedStateManager                  *)
(* ------------------------------------------------------------------ *)
\* add_validation_rule: a rule that accepts every move and one that refuses
\* the moves to RUNNING.
ValidationRuleArgs == {"accept", "refuse_RUNNING"}
\* rule(from_state, to_state)
RuleHolds(rule, from_state, to_state) == rule = "accept" \/ to_state # "RUNNING"

\* StateValidator.validate_transition: valid, and the error message
validate_transition(rules, from_state, to_state) ==
    IF \A k \in DOMAIN rules : RuleHolds(rules[k], from_state, to_state)
    THEN [valid |-> TRUE, error |-> None]
    ELSE [valid |-> FALSE, error |-> "Validation failed"]

\* transition_with_validation, its loop: the position of the first edge whose
\* condition passes, the guard clauses not being looked at; 0 for none
first_condition_match(edges, context) ==
    LET passing == {k \in DOMAIN edges : condition_passes(edges[k], context)}
    IN  IF passing = {} THEN 0 ELSE CHOOSE k \in passing : \A j \in passing : k <= j

\* The last call of the manager: the pair it returned.
AsmRet(op, success, error) == [op |-> op, success |-> success, error |-> error]

\* manager.validator.add_validation_rule(rule)
AddValidationRule(rule) ==
    /\ Len(validator_rules) < MaxRules
    /\ validator_rules' = Append(validator_rules, rule)
    /\ asm_ret' = AsmRet("add_validation_rule", FALSE, None)
    /\ UNCHANGED <<tracker_current_state, state_history, machineVars>>
    /\ UNCHANGED notManager

\* manager.transition_with_validation(trigger, context, user)
TransitionWithValidation(trigger, context, user) ==
    /\ Len(audit_trail) < MaxAudit
    /\ LET k == first_condition_match(transitions[current_state], context)
           next_state == transitions[current_state][k].to_state
           moved == transition(current_state, transitions, state_entry_handlers,
                               state_exit_handlers, audit_trail, trigger, context, user)
       IN  IF k = 0
           THEN /\ asm_ret' = AsmRet("transition_with_validation", FALSE,
                                     "No valid transition found")
                /\ UNCHANGED <<tracker_current_state, state_history, current_state,
                               audit_trail, sm_ret>>
           ELSE IF ~validate_transition(validator_rules, current_state, next_state).valid
           THEN /\ asm_ret' = AsmRet("transition_with_validation", FALSE,
                                     validate_transition(validator_rules, current_state,
                                                         next_state).error)
                /\ UNCHANGED <<tracker_current_state, state_history, current_state,
                               audit_trail, sm_ret>>
           ELSE /\ current_state' = moved.current_state
                /\ audit_trail' = moved.audit_trail
                /\ sm_ret' = SmRet("transition", context, moved.result, moved.ran)
                /\ IF moved.result
                   THEN /\ tracker_current_state' = next_state
                        /\ state_history' = Append(state_history, next_state)
                        /\ asm_ret' = AsmRet("transition_with_validation", TRUE, None)
                   ELSE /\ UNCHANGED <<tracker_current_state, state_history>>
                        /\ asm_ret' = AsmRet("transition_with_validation", FALSE,
                                             "Transition failed")
    /\ UNCHANGED <<states, transitions, state_entry_handlers, state_exit_handlers,
                   validator_rules>>
    /\ UNCHANGED notManager

(* ------------------------------------------------------------------ *)
(* DependencyResolver.get_critical_path, call by call                  *)
(* ------------------------------------------------------------------ *)
\* A call of calculate_length(task_id) under way: the dependencies its loop
\* has still to visit, the first being the one it is at, and max_dep_length.
Frame(task_id, order) ==
    [task_id |-> task_id, todo |-> Ordered(dependency_graph[task_id], order),
     max_dep_length |-> 0]

\* The last call of get_critical_path: how it ended ("returned",
\* "RecursionError", "running", "none") and the path it returned.
CpRet(outcome, path) == [outcome |-> outcome, path |-> path]

\* The frame of the caller once calculate_length(dep_id) has returned length.
Returned(frame, length) ==
    [frame EXCEPT !.todo = Tail(@), !.max_dep_length = MaxOf({@, length})]

\* resolver.get_critical_path(workflow): path_lengths = {}
CriticalPathCall ==
    /\ cp_index = 0
    /\ cp_index' = 1
    /\ cp_stack' = <<>>
    /\ cp_path_lengths' = <<>>
    /\ cp_ret' = CpRet("running", <<>>)
    /\ UNCHANGED workflowVars
    /\ UNCHANGED notPath

\* get_critical_path: for task_id in workflow.tasks: calculate_length(task_id),
\* the call of calculate_length
CalculateTask(order) ==
    /\ cp_index \in 1..Len(wf_tasks)
    /\ cp_stack = <<>>
    /\ cp_index' = cp_index + 1
    /\ cp_stack' = IF wf_tasks[cp_index].task_id \in PathLengthKeys(cp_path_lengths)
                   THEN <<>>
                   ELSE <<Frame(wf_tasks[cp_index].task_id, order)>>
    /\ UNCHANGED <<cp_path_lengths, cp_ret, workflowVars>>
    /\ UNCHANGED notPath

\* calculate_length, one turn of the innermost call: it returns when its loop
\* is over, takes the length of a dependency that has one, and calls itself
\* for a dependency that has none; the call that would pass the recursion
\* limit raises RecursionError, which nothing catches.
CalculateLength(order) ==
    /\ cp_stack # <<>>
    /\ LET depth == Len(cp_stack)
           frame == cp_stack[depth]
           length == frame.max_dep_length + 1
           dep_id == Head(frame.todo)
       IN  IF frame.todo = <<>>
           THEN /\ cp_path_lengths' =
                      Append(cp_path_lengths, [task_id |-> frame.task_id, length |-> length])
                /\ cp_stack' = IF depth = 1 THEN <<>>
                               ELSE Append(SubSeq(cp_stack, 1, depth - 2),
                                           Returned(cp_stack[depth - 1], length))
                /\ UNCHANGED <<cp_index, cp_ret>>
           ELSE IF dep_id \in PathLengthKeys(cp_path_lengths)
           THEN /\ cp_stack' = [cp_stack EXCEPT ![depth] =
                                   Returned(frame, PathLength(cp_path_lengths, dep_id))]
                /\ UNCHANGED <<cp_index, cp_path_lengths, cp_ret>>
           ELSE IF depth < RecursionLimit
           THEN /\ cp_stack' = Append(cp_stack, Frame(dep_id, order))
                /\ UNCHANGED <<cp_index, cp_path_lengths, cp_ret>>
           ELSE /\ cp_stack' = <<>>
                /\ cp_index' = 0
                /\ cp_ret' = CpRet("RecursionError", <<>>)
                /\ UNCHANGED cp_path_lengths
    /\ UNCHANGED workflowVars
    /\ UNCHANGED notPath

\* get_critical_path: the critical path is built and returned
CriticalPathReturn ==
    /\ cp_index = Len(wf_tasks) + 1
    /\ cp_stack = <<>>
    /\ cp_index' = 0
    /\ LET current_length ==
              MaxOf({cp_path_lengths[i].length : i \in DOMAIN cp_path_lengths})
       IN  cp_ret' = CpRet("returned",
                           collect_path(SortedByLength(cp_path_lengths, current_length),
                                        current_length, <<>>))
    /\ UNCHANGED <<cp_stack, cp_path_lengths, workflowVars>>
    /\ UNCHANGED notPath

(* ------------------------------------------------------------------ *)
(* send_message and receive_message, statement by statement            *)
(* ------------------------------------------------------------------ *)
\* The threads that call the one broker.
BrokerThreads == {"w1", "w2"}

\* The call of a thread: the statement it is at, send_message or
\* receive_message, the mailbox it is for and the message it sends or got.
IdleBrokerCall == [pc |-> "idle", op |-> "none", agent_id |-> "", message |-> NoMessage]

\* The calls that are under way.
BrokerRunning == {t \in BrokerThreads : br_calls[t].pc # "idle"}

\* The statement after _get_or_create_queue.
QueueStatement(op) == IF op = "send" THEN "put" ELSE "get"

\* The broker's variables that the calls of the threads never write.
brokerCallers == <<now, pending, sent_order, send_recipients, receive_agents, ret>>

\* thread t calls broker.send_message(Message(sender, recipient, ...))
SendCall(t, sender, recipient, message_type, payload, priority) ==
    /\ br_calls[t].pc = "idle"
    /\ nextId <= MaxSends
    /\ br_calls' = [br_calls EXCEPT ![t] =
          [pc |-> "lookup", op |-> "send", agent_id |-> recipient,
           message |-> NewMessage(nextId, sender, recipient, message_type, payload,
                                  priority, now)]]
    /\ nextId' = nextId + 1
    /\ UNCHANGED <<message_queues, dead_letter_queue, message_history, br_accepted,
                   br_received, brokerCallers>>
    /\ UNCHANGED notDelivery

\* thread t calls broker.receive_message(agent_id, timeout)
ReceiveCall(t, agent_id) ==
    /\ br_calls[t].pc = "idle"
    /\ br_calls' = [br_calls EXCEPT ![t] =
          [pc |-> "lookup", op |-> "receive", agent_id |-> agent_id,
           message |-> NoMessage]]
    /\ UNCHANGED <<nextId, message_queues, dead_letter_queue, message_history,
                   br_accepted, br_received, brokerCallers>>
    /\ UNCHANGED notDelivery

\* _get_or_create_queue: if agent_id not in self.message_queues, read with
\* no lock held
Lookup(t) ==
    /\ br_calls[t].pc = "lookup"
    /\ br_calls' = [br_calls EXCEPT ![t].pc =
          IF br_calls[t].agent_id \in KnownAgents(message_queues)
          THEN QueueStatement(br_calls[t].op) ELSE "create"]
    /\ UNCHANGED <<nextId, message_queues, dead_letter_queue, message_history,
                   br_accepted, br_received, brokerCallers>>
    /\ UNCHANGED notDelivery

\* _get_or_create_queue: the block under broker_lock, which the lock makes
\* one step: the key is looked up again and the queue created if absent
Create(t) ==
    /\ br_calls[t].pc = "create"
    /\ message_queues' = GetOrCreateQueue(message_queues, br_calls[t].agent_id)
    /\ br_calls' = [br_calls EXCEPT ![t].pc = QueueStatement(br_calls[t].op)]
    /\ UNCHANGED <<nextId, dead_letter_queue, message_history, br_accepted,
                   br_received, brokerCallers>>
    /\ UNCHANGED notDelivery

\* MessageQueue.put: self.queue.put(message, block=False), one step under the
\* mutex of queue.PriorityQueue; Full is caught and put returns False
Put(t) ==
    /\ br_calls[t].pc = "put"
    /\ LET i == QueueIndex(message_queues, br_calls[t].agent_id)
       IN  IF QueueIsFull(message_queues[i])
           THEN /\ br_calls' = [br_calls EXCEPT ![t].pc = "dead_letter"]
                /\ UNCHANGED message_queues
           ELSE /\ br_calls' = [br_calls EXCEPT ![t].pc = "count"]
                /\ message_queues' = [message_queues EXCEPT ![i].queue =
                                         HeapPush(@, br_calls[t].message)]
    /\ UNCHANGED <<nextId, dead_letter_queue, message_history, br_accepted,
                   br_received, brokerCallers>>
    /\ UNCHANGED notDelivery

\* MessageQueue.put: with self.size_lock: self.message_count += 1
Count(t) ==
    /\ br_calls[t].pc = "count"
    /\ message_queues' =
          [message_queues EXCEPT
              ![QueueIndex(message_queues, br_calls[t].agent_id)].message_count = @ + 1]
    /\ br_calls' = [br_calls EXCEPT ![t].pc = "record"]
    /\ UNCHANGED <<nextId, dead_letter_queue, message_history, br_accepted,
                   br_received, brokerCallers>>
    /\ UNCHANGED notDelivery

\* send_message: self._record_message(message); return True
Record(t) ==
    /\ br_calls[t].pc = "record"
    /\ message_history' = record_message(message_history, br_calls[t].message)
    /\ br_accepted' = br_accepted \cup
          {[uid |-> br_calls[t].message.uid, recipient |-> br_calls[t].message.recipient]}
    /\ br_calls' = [br_calls EXCEPT ![t].pc = "idle"]
    /\ UNCHANGED <<nextId, message_queues, dead_letter_queue, br_received, brokerCallers>>
    /\ UNCHANGED notDelivery

\* send_message: self.dead_letter_queue.add_message(message, "Queue full");
\* return False
DeadLetter(t) ==
    /\ br_calls[t].pc = "dead_letter"
    /\ dead_letter_queue' = add_message(dead_letter_queue, DEFAULT_MAX_MESSAGES,
                                        br_calls[t].message, "Queue full", now)
    /\ br_calls' = [br_calls EXCEPT ![t].pc = "idle"]
    /\ UNCHANGED <<nextId, message_queues, message_history, br_accepted, br_received,
                   brokerCallers>>
    /\ UNCHANGED notDelivery

\* MessageQueue.get: self.queue.get(block=True, timeout), one step under the
\* mutex of queue.PriorityQueue; on an empty queue the timeout passes, Empty
\* is caught and receive_message returns None
Get(t) ==
    /\ br_calls[t].pc = "get"
    /\ LET i == QueueIndex(message_queues, br_calls[t].agent_id)
       IN  IF message_queues[i].queue = <<>>
           THEN /\ br_calls' = [br_calls EXCEPT ![t].pc = "idle"]
                /\ UNCHANGED message_queues
           ELSE /\ br_calls' = [br_calls EXCEPT
                                   ![t].pc = "uncount",
                                   ![t].message = HeapPopItem(message_queues[i].queue)]
                /\ message_queues' = [message_queues EXCEPT ![i].queue = HeapPopRest(@)]
    /\ UNCHANGED <<nextId, dead_letter_queue, message_history, br_accepted,
                   br_received, brokerCallers>>
    /\ UNCHANGED notDelivery

\* MessageQueue.get: with self.size_lock: self.message_count -= 1; the
\* message is returned
Uncount(t) ==
    /\ br_calls[t].pc = "uncount"
    /\ message_queues' =
          [message_queues EXCEPT
              ![QueueIndex(message_queues, br_calls[t].agent_id)].message_count = @ - 1]
    /\ br_received' = br_received \cup
          {[agent_id |-> br_calls[t].agent_id, uid |-> br_calls[t].message.uid,
            recipient |-> br_calls[t].message.recipient,
            nth |-> 1 + Cardinality({r \in br_received :
                                       r.uid = br_calls[t].message.uid})]}
    /\ br_calls' = [br_calls EXCEPT ![t].pc = "idle"]
    /\ UNCHANGED <<nextId, dead_letter_queue, message_history, br_accepted, brokerCallers>>
    /\ UNCHANGED notDelivery

(* ------------------------------------------------------------------ *)
(* Specifications                                                      *)
(* ------------------------------------------------------------------ *)
Init ==
    /\ now = 0
    /\ nextId = 1
    /\ pending = {}
    /\ message_queues = <<>>
    /\ dead_letter_queue = <<>>
    /\ message_history = <<>>
    /\ sent_order = <<>>
    /\ send_recipients = {}
    /\ receive_agents = {}
    /\ ret = Ret("none", FALSE, NoMessage, 0)
    /\ dlq_messages = <<>>
    /\ dlq_added = <<>>
    /\ subscribers = <<>>
    /\ bus_ret = BusRet("none", "", <<>>, FALSE, {})
    /\ rl_clock = 0
    /\ rl_tokens = RlCapacity * TokenUnit
    /\ rl_last_update = 0
    /\ rl_lock = 0
    /\ rl_pc = [t \in RlThreads |-> "idle"]
    /\ rl_granted = 0
    /\ rl_supplied = RlCapacity * TokenUnit
    /\ rl_burst = 0
    /\ rl_last = RlLast(FALSE, FALSE, 0, FALSE, FALSE)
    /\ pool_agents = <<>>
    /\ strategy = "least_loaded"
    /\ round_robin_index = 0
    /\ assignments = <<>>
    /\ pool_ret = PoolRet("none", None, None, FALSE)
    /\ agent_health = <<>>
    /\ hm_now = 0
    /\ hm_pc = "idle"
    /\ hm_check_now = 0
    /\ hm_ret = HmRet("none", <<>>)
    /\ hm_revived = {}
    /\ recovery_history = <<>>
    /\ recovery_ret = [op |-> "none", agent_id |-> None, strategy |-> None, ok |-> FALSE]
    /\ agent_backup_map = <<>>
    /\ first_backup = [p \in FailoverIds |-> None]
    /\ failover_ret = FailoverRet("none", None, None)
    /\ wf_tasks = <<>>
    /\ dependency_graph = EmptyGraph
    /\ reverse_graph = EmptyGraph
    /\ ready_queue = <<>>
    /\ task_status = [n \in WfIdSet |-> None]
    /\ execution_order = <<>>
    /\ wf_ret = WfRet("none", None)
    /\ contexts = <<>>
    /\ exec_ret = ExecRet("none", FALSE, 0, 0)
    /\ current_state = "INITIAL"
    /\ states = [s \in StateNames |-> None]
    /\ transitions = [s \in StateNames |-> <<>>]
    /\ state_entry_handlers = {}
    /\ state_exit_handlers = {}
    /\ audit_trail = <<>>
    /\ sm_ret = SmRet("none", None, FALSE, <<>>)
    /\ sm_callbacks = {}
    /\ sm_calls = [t \in SmThreads |-> IdleCall]
    /\ tracker_current_state = "INITIAL"
    /\ state_history = <<"INITIAL">>
    /\ validator_rules = <<>>
    /\ asm_ret = AsmRet("none", FALSE, None)
    /\ cp_index = 0
    /\ cp_stack = <<>>
    /\ cp_path_lengths = <<>>
    /\ cp_ret = CpRet("none", <<>>)
    /\ br_calls = [t \in BrokerThreads |-> IdleBrokerCall]
    /\ br_accepted = {}
    /\ br_received = {}

\* The broker: callers that construct a well-formed message of the default
\* priority for each send or broadcast, all within one reading of the clock.
NextBroker ==
    \/ \E s \in Senders, r \in Agents, ty \in MessageTypeArgs :
          SendNewMessage(s, r, ty, DictPayload, NORMAL)
    \/ \E a \in Agents : ReceiveMessage(a)
    \/ \E s \in Senders, ty \in MessageTypeArgs, ex \in SUBSET Agents :
          BroadcastMessage(s, ty, DictPayload, NORMAL, ex)

SpecBroker == Init /\ [][NextBroker]_vars

\* One mailbox: callers that construct messages for agent a1, with a payload
\* of either kind, and send them later, in any order.
NextMailbox ==
    \/ Tick
    \/ \E s \in Senders, ty \in MessageTypeArgs, pl \in PayloadArgs, p \in PriorityArgs :
          CreateMessage(s, "a1", ty, pl, p)
    \/ \E m \in pending : SendMessage(m)
    \/ ReceiveMessage("a1")

SpecMailbox == Init /\ [][NextMailbox]_vars

\* A dead-letter queue used on its own.
NextDlq ==
    \/ \E p \in PriorityArgs, reason \in DlqReasons :
          DlqAddMessage(NewMessage(0, "s1", "a1", "task", DictPayload, p, 0), reason)
    \/ DlqClear

SpecDlq == Init /\ [][NextDlq]_vars

\* The event bus.
NextBus ==
    \/ \E e \in EventTypes, h \in Handlers : Subscribe(e, h)
    \/ \E e \in EventTypes, h \in Handlers : Unsubscribe(e, h)
    \/ \E e \in EventTypes, failing \in SUBSET Handlers : Publish(e, failing)

SpecBus == Init /\ [][NextBus]_vars

\* One rate limiter called from several threads.
NextRateLimiter ==
    \/ RlTick
    \/ \E t \in RlThreads : AllowCall(t)
    \/ \E t \in RlThreads : AllowAcquire(t)
    \/ \E t \in RlThreads : AllowRefill(t)
    \/ \E t \in RlThreads : AllowCheck(t)
    \/ \E t \in RlThreads : AllowDecrement(t)

SpecRateLimiter == Init /\ [][NextRateLimiter]_vars

\* A pool, the distributor built for it, and the coordinator's callers.
NextPool ==
    \/ \E s \in LoadBalancingStrategy : NewTaskDistributor(s)
    \/ \E a \in PoolAgentIds, c \in CapabilityArgs : RegisterAgent(a, c)
    \/ \E a \in PoolAgentIds : UnregisterAgent(a)
    \/ \E t \in TaskIds, d \in TaskDataArgs : CoordinateExecution(t, d)
    \/ \E t \in TaskIds : CompleteTask(t)

SpecPool == Init /\ [][NextPool]_vars

\* A health monitor: agents that register, beat and report, a clock, and one
\* caller of check_health.
NextHealth ==
    \/ HmTick
    \/ \E a \in HealthAgentIds : HmRegisterAgent(a)
    \/ \E a \in HealthAgentIds : Heartbeat(a)
    \/ \E a \in HealthAgentIds : RecordError(a)
    \/ \E a \in HealthAgentIds : RecordSuccess(a)
    \/ CheckHealthStart
    \/ CheckHealthScan

SpecHealth == Init /\ [][NextHealth]_vars

\* Recovery attempts.
NextRecovery ==
    \E a \in RecoveryAgentIds, s \in RecoveryStrategy : AttemptRecovery(a, s)

SpecRecovery == Init /\ [][NextRecovery]_vars

\* A failover manager.
NextFailover ==
    \/ \E p \in FailoverIds, b \in BackupIds : RegisterBackup(p, b)
    \/ \E a \in FailoverIds : GetBackup(a)
    \/ \E a \in FailoverIds : ExecuteFailover(a)

SpecFailover == Init /\ [][NextFailover]_vars

\* The dependency resolver and the validation of a workflow: the workflow
\* is built first, with tasks of the default priority, and analysed then.
NextResolver ==
    \/ /\ wf_ret.op \in {"none", "add_task"}
       /\ \E dependencies \in DependencyArgs : AddTask(DEFAULT_PRIORITY, dependencies)
    \/ \E order \in IterationOrders : BuildGraph(order)
    \/ \E order \in IterationOrders : ValidateWorkflow(order)
SpecResolver == Init /\ [][NextResolver]_vars

\* The critical path of a workflow built the same way.
NextCriticalPath ==
    \/ /\ wf_ret.op \in {"none", "add_task"}
       /\ \E dependencies \in DependencyArgs : AddTask(DEFAULT_PRIORITY, dependencies)
    \/ \E order \in IterationOrders : BuildGraph(order)
    \/ \E order \in IterationOrders : GetCriticalPath(order)
SpecCriticalPath == Init /\ [][NextCriticalPath]_vars

\* The scheduler: tasks are added, scheduled and marked failed in any order.
NextScheduler ==
    \/ /\ Len(wf_tasks) < Len(SchedulerTaskIds)
       /\ \E priority \in TaskPriorityArgs, dependencies \in SchedulerDependencyArgs :
              AddTask(priority, dependencies)
    \/ Schedule
    \/ \E task_id \in WfIdSet : MarkFailed(task_id)
SpecScheduler == Init /\ [][NextScheduler]_vars

\* The execution plan of a workflow, asked for as the workflow grows.
NextPlan ==
    \/ /\ Len(wf_tasks) < Len(SchedulerTaskIds)
       /\ \E priority \in TaskPriorityArgs, dependencies \in SchedulerDependencyArgs :
              AddTask(priority, dependencies)
    \/ \E order \in IterationOrders : GetExecutionPlan(order)
SpecPlan == Init /\ [][NextPlan]_vars

\* The executor: one context, and actions run on it with retry.
NextExecutor ==
    \/ \E max_retries \in 0..MaxRetriesArg : CreateContext(max_retries)
    \/ \E n \in 0..MaxRetriesArg : \E outcomes \in [1..n -> BOOLEAN] :
           ExecuteWithRetry(outcomes)
SpecExecutor == Init /\ [][NextExecutor]_vars

\* The state machine: states and guarded transitions are declared, and the
\* machine is driven with and without a context.
NextStateMachine ==
    \/ \E state \in StateNames, state_type \in StateTypeArgs : DefineState(state, state_type)
    \/ \E from_state, to_state \in StateNames, condition \in ConditionArgs,
          guard_clauses \in GuardClauseArgs :
           AddTransition(from_state, to_state, condition, FALSE, guard_clauses)
    \/ \E context \in ContextArgs : Transition("start", context, "system")
SpecStateMachine == Init /\ [][NextStateMachine]_vars

\* The state machine with handlers: every transition has an action, no
\* condition and either no guard clause or two of which one refuses, and
\* states may have entry and exit handlers.
NextHandlers ==
    \/ \E state \in StateNames, state_type \in StateTypeArgs : DefineState(state, state_type)
    \/ \E from_state, to_state \in StateNames,
          guard_clauses \in {<<>>, <<"always", "never">>} :
           AddTransition(from_state, to_state, None, TRUE, guard_clauses)
    \/ \E state \in StateNames : RegisterEntryHandler(state)
    \/ \E state \in StateNames : RegisterExitHandler(state)
    \/ \E context \in ContextArgs : Transition("start", context, "system")
SpecHandlers == Init /\ [][NextHandlers]_vars

\* One thread drives the machine statement by statement: every transition
\* has an action and no condition, states may have handlers and callbacks,
\* and each handler, action and callback returns or raises.
NextSteps ==
    \/ /\ Running = {}
       /\ \/ \E state \in StateNames, state_type \in StateTypeArgs :
                DefineState(state, state_type)
          \/ \E from_state, to_state \in StateNames :
                AddTransition(from_state, to_state, None, TRUE, <<>>)
          \/ RegisterEntryHandler("RUNNING")
          \/ RegisterExitHandler("INITIAL")
    \/ RegisterCallback("INITIAL", "RUNNING")
    \/ Call("t1", "start", None, "system")
    \/ Fail("t1")
    \/ \E raises \in BOOLEAN : ExitHandler("t1", raises)
    \/ \E raises \in BOOLEAN : EdgeAction("t1", raises)
    \/ UpdateState("t1")
    \/ \E raises \in BOOLEAN : EntryHandler("t1", raises)
    \/ AppendAudit("t1")
    \/ \E raises \in BOOLEAN : Callbacks("t1", raises)
SpecSteps == Init /\ [][NextSteps]_vars

\* Two threads call transition on one machine whose transitions have no
\* condition, no action and no guard clause, and whose states have no
\* handlers: the statements of the two calls interleave. The machine is set
\* up before the first call.
NextThreads ==
    \/ /\ Running = {} /\ audit_trail = <<>>
       /\ \/ \E state \in StateNames, state_type \in StateTypeArgs :
                DefineState(state, state_type)
          \/ \E from_state, to_state \in StateNames :
                AddTransition(from_state, to_state, None, FALSE, <<>>)
    \/ \E t \in SmThreads :
          \/ Call(t, "start", None, "system")
          \/ Fail(t)
          \/ ExitHandler(t, FALSE)
          \/ EdgeAction(t, FALSE)
          \/ UpdateState(t)
          \/ EntryHandler(t, FALSE)
          \/ AppendAudit(t)
          \/ Callbacks(t, FALSE)
SpecThreads == Init /\ [][NextThreads]_vars

\* The manager: states, transitions with and without guard clauses and
\* validation rules are declared on manager.machine and manager.validator,
\* and the machine is driven through transition_with_validation only.
NextManager ==
    \/ \E state \in StateNames, state_type \in StateTypeArgs : DefineState(state, state_type)
    \/ \E from_state, to_state \in StateNames,
          guard_clauses \in {<<>>, <<"always", "never">>} :
           AddTransition(from_state, to_state, None, FALSE, guard_clauses)
    \/ \E rule \in ValidationRuleArgs : AddValidationRule(rule)
    \/ TransitionWithValidation("start", None, "system")
SpecManager == Init /\ [][NextManager]_vars

\* The critical path, call by call: workflows of up to three tasks, each
\* with no dependency or one, are built, their graph is built or not, and
\* get_critical_path runs to its end before anything else is called.
NextRecursion ==
    \/ /\ cp_index = 0
       /\ \/ /\ wf_ret.op \in {"none", "add_task"}
             /\ Len(wf_tasks) < Len(SchedulerTaskIds)
             /\ \E dependencies \in SchedulerDependencyArgs :
                   AddTask(DEFAULT_PRIORITY, dependencies)
          \/ \E order \in IterationOrders : BuildGraph(order)
    \/ CriticalPathCall
    \/ \E order \in IterationOrders : CalculateTask(order)
    \/ \E order \in IterationOrders : CalculateLength(order)
    \/ CriticalPathReturn
SpecRecursion == Init /\ [][NextRecursion]_vars

\* The coordinator alone: a round-robin or least-loaded distributor over
\* agents registered before the first task, then coordinate_execution and
\* complete_task calls only, a task being completed more than once.
NextCoordinator ==
    \/ \E s \in {"round_robin", "least_loaded"} : NewTaskDistributor(s)
    \/ /\ pool_ret.op \in {"none", "register_agent"}
       /\ \E a \in PoolAgentIds, c \in CapabilityArgs : RegisterAgent(a, c)
    \/ \E t \in TaskIds, d \in TaskDataArgs : CoordinateExecution(t, d)
    \/ \E t \in TaskIds : CompleteTaskWithin(t, MaxCompleted + 1)
SpecCoordinator == Init /\ [][NextCoordinator]_vars

\* Two threads call send_message and receive_message on one broker, for two
\* mailboxes; their statements interleave.
NextDelivery ==
    \E t \in BrokerThreads :
       \/ \E r \in Agents : SendCall(t, "s1", r, "task", DictPayload, NORMAL)
       \/ \E a \in Agents : ReceiveCall(t, a)
       \/ Lookup(t)
       \/ Create(t)
       \/ Put(t)
       \/ Count(t)
       \/ Record(t)
       \/ DeadLetter(t)
       \/ Get(t)
       \/ Uncount(t)
SpecDelivery == Init /\ [][NextDelivery]_vars

(* ------------------------------------------------------------------ *)
(* Claims about the broker                                             *)
(* ------------------------------------------------------------------ *)
\* The message SendNewMessage constructs.
Constructed(s, r, ty, pl, p) == NewMessage(nextId, s, r, ty, pl, p, now)

LastEntry(q) == q[Len(q)]

\* u was accepted by the broker before v.
SentBefore(u, v) ==
    \E i, j \in 1..Len(sent_order) : i < j /\ sent_order[i] = u /\ sent_order[j] = v

\* m1 is due before m2: higher priority, or equal priority and sent earlier.
DueBefore(m1, m2) ==
    \/ m1.priority < m2.priority
    \/ m1.priority = m2.priority /\ SentBefore(m1.uid, m2.uid)

\* C1: a receive returns the message that is due first among those the
\* mailbox holds: the highest priority, and among equal priorities the one
\* sent first.
CX_C1 ==
    [][(ReceiveMessage("a1") /\ ret'.ok) =>
          \A i \in 1..Len(Mailbox(message_queues, "a1")) :
              LET m == Mailbox(message_queues, "a1")[i]
              IN  m.uid # ret'.msg.uid => DueBefore(ret'.msg, m)]_vars

\* C2: a send to a mailbox that holds max_queue_size messages returns
\* false, leaves every mailbox as it was and adds exactly one dead-letter
\* entry, for that message, with the reason "Queue full".
T_C2 ==
    [][\A s \in Senders, r \in Agents, ty \in MessageTypeArgs, pl \in {DictPayload},
          p \in PriorityArgs :
          (/\ SendNewMessage(s, r, ty, pl, p)
           /\ Len(Mailbox(message_queues, r)) = max_queue_size)
          => /\ ret'.op = "send" /\ ~ret'.ok
             /\ message_queues' = message_queues
             /\ Len(dead_letter_queue') >= 1
             /\ LastEntry(dead_letter_queue').message = to_dict(Constructed(s, r, ty, pl, p))
             /\ LastEntry(dead_letter_queue').failure_reason = "Queue full"
             /\ LET before == SubSeq(dead_letter_queue', 1, Len(dead_letter_queue') - 1)
                IN  \/ before = dead_letter_queue
                    \/ dead_letter_queue # <<>> /\ before = Tail(dead_letter_queue)]_vars

\* C2: a send was refused by a full mailbox and dead-lettered.
W_C2 ==
    /\ ret.op = "send" /\ ~ret.ok
    /\ dead_letter_queue # <<>>
    /\ LastEntry(dead_letter_queue).failure_reason = "Queue full"
    /\ Len(Mailbox(message_queues, LastEntry(dead_letter_queue).message.recipient))
          = max_queue_size

\* C3: a send of a message that fails schema validation returns false,
\* places the message in no mailbox and dead-letters it as a validation
\* failure.
CX_C3 ==
    [][\A m \in pending :
          (SendMessage(m) /\ ~validate_message(to_dict(m)))
          => /\ ~ret'.ok
             /\ \A a \in Agents : Mailbox(message_queues', a) = Mailbox(message_queues, a)
             /\ dead_letter_queue' # <<>>
             /\ LastEntry(dead_letter_queue').failure_reason = "validation failed"]_vars

\* C4: an accepted send takes one token from the rate limiter, and a send
\* made when no token is left returns false, enqueues nothing and is
\* dead-lettered with a rate-limit reason.
CX_C4 ==
    [][\A s \in Senders, r \in Agents, ty \in MessageTypeArgs, p \in PriorityArgs :
          SendNewMessage(s, r, ty, DictPayload, p)
          => /\ ret'.ok => (HasToken(rl_tokens) /\ rl_tokens' = rl_tokens - TokenUnit)
             /\ ~HasToken(rl_tokens) =>
                   /\ ~ret'.ok
                   /\ \A a \in Agents : Mailbox(message_queues', a) = Mailbox(message_queues, a)
                   /\ dead_letter_queue' # <<>>
                   /\ LastEntry(dead_letter_queue').failure_reason = "rate limit exceeded"]_vars

\* C6, as claimed: the known mailboxes are exactly the agents that were the
\* recipient of a send.
CX_C6 == KnownAgents(message_queues) = send_recipients

\* C6, amended: the known mailboxes are exactly the agents that were the
\* recipient of a send or the agent of a receive_message call.
T_C6 == KnownAgents(message_queues) = send_recipients \cup receive_agents

\* C6: one mailbox exists through a send, another through a receive alone.
W_C6 ==
    /\ send_recipients # {}
    /\ (receive_agents \ send_recipients) # {}
    /\ Cardinality(KnownAgents(message_queues)) = 2

\* msg_copy is a copy of the message broadcast, addressed to agent_id.
IsCopy(msg_copy, agent_id, s, ty, pl, p) ==
    /\ msg_copy.sender = s /\ msg_copy.recipient = agent_id
    /\ msg_copy.message_type = ty /\ msg_copy.payload = pl /\ msg_copy.priority = p

\* C7: a broadcast adds one copy of the message to every known mailbox that
\* is not excluded and has room, changes no other mailbox (an excluded one,
\* a full one), creates none, and returns the number of copies delivered.
T_C7 ==
    [][\A s \in Senders, ty \in MessageTypeArgs, pl \in {DictPayload}, p \in PriorityArgs,
          ex \in SUBSET Agents :
          BroadcastMessage(s, ty, pl, p, ex)
          => LET targets == KnownAgents(message_queues) \ ex
                 open == {a \in targets : Len(Mailbox(message_queues, a)) < max_queue_size}
             IN  /\ KnownAgents(message_queues') = KnownAgents(message_queues)
                 /\ \A a \in Agents \ open :
                       Mailbox(message_queues', a) = Mailbox(message_queues, a)
                 /\ \A a \in open :
                       LET old == SeqToSet(Mailbox(message_queues, a))
                           new == SeqToSet(Mailbox(message_queues', a))
                       IN  /\ Len(Mailbox(message_queues', a)) = Len(Mailbox(message_queues, a)) + 1
                           /\ old \subseteq new
                           /\ \E c \in new \ old : IsCopy(c, a, s, ty, pl, p)
                 /\ ret'.op = "broadcast" /\ ret'.n = Cardinality(open)]_vars

\* C7: a broadcast delivered a copy while a known mailbox, being excluded,
\* stayed empty.
W_C7 ==
    /\ ret.op = "broadcast" /\ ret.n >= 1
    /\ \E a \in KnownAgents(message_queues) : Mailbox(message_queues, a) = <<>>

(* ------------------------------------------------------------------ *)
(* Claims about the dead-letter queue, the event bus, the rate limiter *)
(* ------------------------------------------------------------------ *)
\* The last n elements of a sequence.
LastN(seq, n) == SubSeq(seq, Len(seq) - n + 1, Len(seq))

\* C5: after k add_message calls the ring holds the min(k, capacity) entries
\* added last, in the order they were added, and never more than capacity.
T_C5 ==
    /\ Len(dlq_messages) <= DlqCapacity
    /\ dlq_messages = LastN(dlq_added, Min(Len(dlq_added), DlqCapacity))

\* C5: two more entries were added than the ring holds, and the oldest is gone.
W_C5 ==
    /\ Len(dlq_added) = DlqCapacity + 2
    /\ Len(dlq_messages) = DlqCapacity
    /\ dlq_added[1] \notin SeqToSet(dlq_messages)

\* C8: publish invokes every callback subscribed to the event's type, in
\* subscription order, whichever of them raise, and no exception leaves it.
T_C8 ==
    bus_ret.op = "publish" =>
        /\ bus_ret.invoked = SubscribersGet(subscribers, bus_ret.event_type)
        /\ ~bus_ret.raised

\* C8: the first callback raised and a later one was still invoked.
W_C8 ==
    /\ bus_ret.op = "publish"
    /\ Len(bus_ret.invoked) >= 2
    /\ bus_ret.invoked[1] \in bus_ret.failing

\* C9: the token count stays between 0 and capacity; of the calls made with
\* no time elapsing since the bucket was full, the first capacity ones are
\* admitted and the next is rejected; and a call made at least 1/rate after
\* a rejected call is admitted.
T_C9 ==
    /\ 0 <= rl_tokens /\ rl_tokens <= RlCapacity * TokenUnit
    /\ rl_last.called =>
          /\ rl_burst \in 1..RlCapacity => rl_last.ok
          /\ rl_burst = RlCapacity + 1 => ~rl_last.ok
          /\ (/\ rl_last.prev_called /\ ~rl_last.prev_ok
              /\ rl_last.elapsed * RefillPerTick >= TokenUnit) => rl_last.ok

\* C9: a call rejected, and the next call, 1/rate or more later, admitted.
W_C9 ==
    /\ rl_last.called /\ rl_last.ok
    /\ rl_last.prev_called /\ ~rl_last.prev_ok
    /\ rl_last.elapsed * RefillPerTick >= TokenUnit

\* The threads between taking the lock and releasing it.
InAllowMessage == {t \in RlThreads : rl_pc[t] \in {"refill", "check", "decrement"}}

\* C10: under any interleaving of the callers at most one is inside
\* allow_message's check-and-decrement, the calls that returned True never
\* outnumber the whole tokens put into the bucket, and the token count is
\* never negative.
T_C10 ==
    /\ Cardinality(InAllowMessage) <= 1
    /\ rl_granted * TokenUnit <= rl_supplied
    /\ rl_tokens >= 0

\* C10: one caller is about to take the last whole token while another
\* waits for the lock.
W_C10 ==
    \E t1, t2 \in RlThreads :
        /\ t1 # t2
        /\ rl_pc[t1] = "decrement" /\ rl_pc[t2] = "acquire"
        /\ rl_tokens < 2 * TokenUnit
        /\ rl_granted >= 1


(* ------------------------------------------------------------------ *)
(* Claims about the agent pool, the distributor and the coordinator    *)
(* ------------------------------------------------------------------ *)
\* C11: register_agent returns false whenever the pool already holds
\* max_agents agents, and leaves the pool as it was; after any sequence of
\* register_agent and unregister_agent calls the pool never holds more than
\* max_agents agents.
T_C11 ==
    [][/\ Len(pool_agents') <= max_agents
       /\ (pool_ret'.op = "register_agent" /\ Len(pool_agents) >= max_agents)
             => (~pool_ret'.ok /\ pool_agents' = pool_agents)]_vars

\* A registration was refused by a pool that holds max_agents agents, one of
\* them busy.
W_C11 ==
    /\ pool_ret.op = "register_agent"
    /\ ~pool_ret.ok
    /\ Len(pool_agents) = max_agents
    /\ \E i \in 1..Len(pool_agents) : pool_agents[i].status = "busy"

\* C12: registering an agent id that is already registered returns false and
\* changes nothing: the pool and the existing agent's record stay as they were.
CX_C12 ==
    [][\A a \in PoolAgentIds, c \in CapabilityArgs :
          (RegisterAgent(a, c) /\ a \in AgentIds(pool_agents))
             => (~pool_ret'.ok /\ pool_agents' = pool_agents)]_vars

\* C13: whatever the strategy, no agent is returned when no agent of the pool
\* is idle, and coordinate_execution assigns a task only to an agent that was idle.
CX_C13 ==
    [][\A t \in TaskIds, d \in TaskDataArgs :
          CoordinateExecution(t, d)
             => /\ IdleAgents(pool_agents) = <<>> => pool_ret'.agent_id = None
                /\ pool_ret'.agent_id # None
                      => get_agent(pool_agents, pool_ret'.agent_id).status = "idle"]_vars

\* C14: with the default distributor (least loaded), coordinate_execution
\* returns an agent for every task as long as the pool has registered agents.
CX_C14 ==
    [][\A t \in TaskIds, d \in TaskDataArgs :
          (CoordinateExecution(t, d) /\ strategy = "least_loaded" /\ pool_agents # <<>>)
             => pool_ret'.agent_id # None]_vars

\* The agents on which task t is in progress.
InProgressOn(t) ==
    {i \in 1..Len(pool_agents) :
        pool_agents[i].status = "busy" /\ pool_agents[i].current_task = t}

\* C15: a task that has been assigned and not completed is in progress on at
\* most one agent.
CX_C15 == \A t \in TaskIds : Cardinality(InProgressOn(t)) <= 1

\* C16: complete_task for a known task id returns true, sets the assigned agent
\* idle with no current task and its counter one higher, marks the assignment
\* completed and leaves every other agent and assignment unchanged; for an
\* unknown task id it returns false and changes nothing.
T_C16 ==
    [][pool_ret'.op = "complete_task"
          => LET t == pool_ret'.task_id
             IN  IF t \in DOMAIN assignments
                THEN /\ pool_ret'.ok
                     /\ DOMAIN assignments' = DOMAIN assignments
                     /\ assignments'[t].status = "completed"
                     /\ assignments'[t].agent_id = assignments[t].agent_id
                     /\ \A u \in DOMAIN assignments \ {t} : assignments'[u] = assignments[u]
                     /\ Len(pool_agents') = Len(pool_agents)
                     /\ \A i \in 1..Len(pool_agents) :
                           IF pool_agents[i].id = assignments[t].agent_id
                           THEN /\ pool_agents'[i].status = "idle"
                                /\ pool_agents'[i].current_task = None
                                /\ pool_agents'[i].tasks_completed =
                                      pool_agents[i].tasks_completed + 1
                                /\ pool_agents'[i].id = pool_agents[i].id
                           ELSE pool_agents'[i] = pool_agents[i]
                ELSE /\ ~pool_ret'.ok
                     /\ pool_agents' = pool_agents
                     /\ assignments' = assignments]_vars

\* A task was completed on one agent while another agent is busy with another task.
W_C16 ==
    /\ pool_ret.op = "complete_task"
    /\ pool_ret.ok
    /\ assignments[pool_ret.task_id].status = "completed"
    /\ \E i, j \in 1..Len(pool_agents) :
          /\ pool_agents[i].id = assignments[pool_ret.task_id].agent_id
          /\ pool_agents[i].tasks_completed = 1
          /\ pool_agents[i].status = "idle"
          /\ pool_agents[j].status = "busy"
          /\ pool_agents[j].current_task # pool_ret.task_id


(* ------------------------------------------------------------------ *)
(* Claims about fault tolerance                                        *)
(* ------------------------------------------------------------------ *)
\* The record of a registered agent.
HealthOf(health, a) == health[HealthIndex(health, a)]

\* The agents whose last heartbeat is more than heartbeat_timeout before t.
Overdue(health, t) ==
    {a \in HealthIds(health) : t - HealthOf(health, a).last_heartbeat > heartbeat_timeout}

\* C17: check_health returns exactly the registered agents whose time since
\* the last heartbeat, at the clock reading of the call, exceeds
\* heartbeat_timeout, and marks exactly those failed; the record of every other
\* agent is left as it was.
T_C17 ==
    [][CheckHealthScan
          => /\ SeqToSet(hm_ret'.failed_agents) = Overdue(agent_health, hm_check_now)
             /\ Len(hm_ret'.failed_agents) = Cardinality(Overdue(agent_health, hm_check_now))
             /\ HealthIds(agent_health') = HealthIds(agent_health)
             /\ \A a \in HealthIds(agent_health) :
                   IF a \in Overdue(agent_health, hm_check_now)
                   THEN HealthOf(agent_health', a) =
                           [HealthOf(agent_health, a) EXCEPT !.status = "failed"]
                   ELSE HealthOf(agent_health', a) = HealthOf(agent_health, a)]_vars

\* A check returned one agent and left the other, which is not failed.
W_C17 ==
    /\ hm_ret.op = "check_health"
    /\ hm_pc = "idle"
    /\ Len(hm_ret.failed_agents) = 1
    /\ \E a \in HealthIds(agent_health) :
          /\ a \notin SeqToSet(hm_ret.failed_agents)
          /\ HealthOf(agent_health, a).status # "failed"
          /\ hm_check_now - HealthOf(agent_health, a).last_heartbeat = heartbeat_timeout

\* C18: a heartbeat from a registered agent stamps its last-seen time with the
\* clock and sets its status to healthy whatever it was; a check_health whose
\* clock reading is no more than heartbeat_timeout after the stamp does not
\* return the agent and leaves it healthy.
T_C18 ==
    [][/\ \A a \in HealthAgentIds :
             (Heartbeat(a) /\ a \in HealthIds(agent_health))
                => /\ HealthOf(agent_health', a).last_heartbeat = hm_now
                   /\ HealthOf(agent_health', a).status = "healthy"
       /\ CheckHealthScan
             => \A a \in HealthIds(agent_health) :
                   hm_check_now - HealthOf(agent_health, a).last_heartbeat <= heartbeat_timeout
                      => /\ a \notin SeqToSet(hm_ret'.failed_agents)
                         /\ HealthOf(agent_health', a).status = HealthOf(agent_health, a).status]_vars

\* An agent that was failed sent a heartbeat, time passed, and a later check,
\* within the timeout, did not return it.
W_C18 ==
    /\ hm_ret.op = "check_health"
    /\ hm_pc = "idle"
    /\ \E a \in hm_revived \cap HealthIds(agent_health) :
          /\ a \notin SeqToSet(hm_ret.failed_agents)
          /\ HealthOf(agent_health, a).status = "healthy"
          /\ hm_check_now > HealthOf(agent_health, a).last_heartbeat

\* C19: every attempt_recovery call, whatever the strategy and the outcome,
\* appends exactly one entry to the recovery history and leaves the earlier
\* entries as they were.
CX_C19 ==
    [][\A a \in RecoveryAgentIds, s \in RecoveryStrategy :
          AttemptRecovery(a, s)
             => /\ Len(recovery_history') = Len(recovery_history) + 1
                /\ SubSeq(recovery_history', 1, Len(recovery_history)) = recovery_history]_vars

\* C20: the map keeps the backups of each primary in registration order;
\* get_backup returns the first backup registered for the primary, or nothing
\* if none was, and execute_failover returns the same.
T_C20 ==
    [][/\ \A p \in FailoverIds, b \in BackupIds :
             RegisterBackup(p, b)
                => /\ agent_backup_map'[p] =
                         (IF p \in DOMAIN agent_backup_map THEN agent_backup_map[p] ELSE <<>>)
                            \o <<b>>
                   /\ \A q \in DOMAIN agent_backup_map \ {p} :
                         agent_backup_map'[q] = agent_backup_map[q]
       /\ \A a \in FailoverIds :
             (GetBackup(a) \/ ExecuteFailover(a)) => failover_ret'.result = first_backup[a]]_vars

\* execute_failover returned the first of two different backups of a primary.
W_C20 ==
    /\ failover_ret.op = "execute_failover"
    /\ failover_ret.agent_id \in DOMAIN agent_backup_map
    /\ Len(agent_backup_map[failover_ret.agent_id]) = 2
    /\ agent_backup_map[failover_ret.agent_id][1] # agent_backup_map[failover_ret.agent_id][2]
    /\ failover_ret.result = agent_backup_map[failover_ret.agent_id][1]

(* ------------------------------------------------------------------ *)
(* Claims about the workflow engine                                    *)
(* ------------------------------------------------------------------ *)
\* The dependencies of a task of the workflow; an id that is no task has none.
Dependencies(tasks, task_id) ==
    IF task_id \in WorkflowIds(tasks)
    THEN tasks[TaskIndex(tasks, task_id)].dependencies
    ELSE {}

\* Everything reached from the frontier through one or more dependencies.
RECURSIVE Descend(_, _, _)
Descend(tasks, frontier, seen) ==
    LET next == UNION {Dependencies(tasks, x) : x \in frontier} \ seen
    IN  IF next = {} THEN seen ELSE Descend(tasks, next, seen \cup next)

\* Some task is reachable from itself through dependencies.
HasDependencyCycle(tasks) ==
    \E a \in WorkflowIds(tasks) : a \in Descend(tasks, {a}, {})

\* A chain: every task of the list directly depends on the one that follows it.
IsChain(tasks, s) ==
    \A i \in 1..(Len(s) - 1) : s[i + 1] \in Dependencies(tasks, s[i])

\* The length of the longest dependency chain among the tasks.
MaxChainLength(tasks) ==
    MaxOf({n \in 1..Len(tasks) :
              \E s \in [1..n -> WorkflowIds(tasks)] : IsChain(tasks, s)})

\* C21: build_graph returns False exactly when the dependency relation among
\* the workflow's tasks has a cycle (some task reachable from itself, a
\* self-dependency included), and True for every workflow without one.
T_C21 ==
    wf_ret.op = "build_graph" =>
        (wf_ret.result = FALSE <=> HasDependencyCycle(wf_tasks))

\* build_graph has refused the cycle of three tasks, each depending on the prior.
W_C21 ==
    /\ wf_ret = WfRet("build_graph", FALSE)
    /\ Len(wf_tasks) = 3
    /\ wf_tasks[1].dependencies = {"C"}
    /\ wf_tasks[2].dependencies = {"A"}
    /\ wf_tasks[3].dependencies = {"B"}

\* C22: validate_workflow returns True exactly when the workflow has at least
\* one task, its dependency relation has no cycle, and every dependency id a
\* task names is the id of a task of the workflow.
T_C22 ==
    wf_ret.op = "validate_workflow" =>
        (wf_ret.result = TRUE <=>
            /\ Len(wf_tasks) >= 1
            /\ ~HasDependencyCycle(wf_tasks)
            /\ \A i \in DOMAIN wf_tasks :
                   wf_tasks[i].dependencies \subseteq WorkflowIds(wf_tasks))

\* validate_workflow has refused a workflow without a cycle because a task
\* names a dependency that is no task of the workflow.
W_C22 ==
    /\ wf_ret = WfRet("validate_workflow", FALSE)
    /\ Len(wf_tasks) >= 1
    /\ ~HasDependencyCycle(wf_tasks)
    /\ \E i \in DOMAIN wf_tasks :
           ~(wf_tasks[i].dependencies \subseteq WorkflowIds(wf_tasks))

\* C25: for a workflow without a cycle (here: a valid one, whose graph has just
\* been built), get_critical_path returns one longest dependency chain: as
\* long as the longest chain, each task directly depending on the next one.
CX_C25 ==
    (/\ wf_ret.op = "get_critical_path"
     /\ wf_tasks # <<>>
     /\ dependency_graph = DependencyGraphOf(wf_tasks)
     /\ ~HasDependencyCycle(wf_tasks)
     /\ dependencies_exist(wf_tasks))
    => /\ Len(wf_ret.result) = MaxChainLength(wf_tasks)
       /\ IsChain(wf_tasks, wf_ret.result)

\* A workflow validate_workflow accepts: a task, no cycle, no missing dependency.
IsValidWorkflow(tasks) ==
    /\ Len(tasks) >= 1
    /\ ~HasDependencyCycle(tasks)
    /\ \A i \in DOMAIN tasks : tasks[i].dependencies \subseteq WorkflowIds(tasks)

\* C23: an invalid workflow (no task, a dependency cycle or a missing
\* dependency) is never scheduled: get_execution_plan returns None for it and
\* for no other, changes the status of no task and adds nothing to the ready
\* queue.
T_C23 ==
    [][wf_ret'.op = "get_execution_plan" =>
            IF IsValidWorkflow(wf_tasks)
            THEN ~wf_ret'.result.is_none
            ELSE /\ wf_ret'.result.is_none
                 /\ wf_tasks' = wf_tasks
                 /\ ready_queue' = ready_queue
                 /\ execution_order' = execution_order
                 /\ task_status' = task_status]_vars

\* get_execution_plan has refused a workflow of pending tasks over a
\* dependency on a task that is not in it, and the ready queue is still empty.
W_C23 ==
    /\ wf_ret.op = "get_execution_plan"
    /\ wf_ret.result.is_none
    /\ Len(wf_tasks) >= 1
    /\ ~HasDependencyCycle(wf_tasks)
    /\ \A i \in DOMAIN wf_tasks : wf_tasks[i].status = TaskStatus.PENDING
    /\ ready_queue = <<>>

\* Position of a task id in a list of ids.
PositionIn(ids, task_id) == CHOOSE k \in DOMAIN ids : ids[k] = task_id

\* C24: schedule returns exactly the tasks that were PENDING, each once, by
\* ascending priority number and, for equal priorities, in insertion order;
\* it marks exactly those READY and queues them in that order; the
\* dependencies play no part, and tasks in any other status are neither
\* returned nor changed.
T_C24 ==
    [][wf_ret'.op = "schedule" =>
            LET result == wf_ret'.result
                was_pending == {i \in DOMAIN wf_tasks :
                                    wf_tasks[i].status = TaskStatus.PENDING}
            IN  /\ Len(result) = Cardinality(was_pending)
                /\ {result[k] : k \in DOMAIN result}
                       = {wf_tasks[i].task_id : i \in was_pending}
                /\ \A j, k \in DOMAIN result :
                       j < k =>
                           LET a == TaskIndex(wf_tasks, result[j])
                               b == TaskIndex(wf_tasks, result[k])
                           IN  \/ wf_tasks[a].priority < wf_tasks[b].priority
                               \/ /\ wf_tasks[a].priority = wf_tasks[b].priority
                                  /\ a < b
                /\ DOMAIN wf_tasks' = DOMAIN wf_tasks
                /\ \A i \in DOMAIN wf_tasks :
                       wf_tasks'[i] =
                           IF i \in was_pending
                           THEN [wf_tasks[i] EXCEPT !.status = TaskStatus.READY]
                           ELSE wf_tasks[i]
                /\ ready_queue' = ready_queue \o result
                /\ execution_order' = result]_vars

\* schedule has returned a task ahead of the task it depends on, which has the
\* larger priority number, and has left out a task that was READY before.
W_C24 ==
    /\ wf_ret.op = "schedule"
    /\ Len(wf_ret.result) = 2
    /\ Len(wf_tasks) = 3
    /\ wf_ret.result[2] \in
           wf_tasks[TaskIndex(wf_tasks, wf_ret.result[1])].dependencies
    /\ wf_tasks[TaskIndex(wf_tasks, wf_ret.result[1])].priority
           < wf_tasks[TaskIndex(wf_tasks, wf_ret.result[2])].priority
    /\ \A i \in DOMAIN wf_tasks : wf_tasks[i].status = TaskStatus.READY

\* C26: once a task is marked FAILED, another task that depends on it does
\* not become READY or RUNNING.
CX_C26 ==
    [][\A i \in DOMAIN wf_tasks :
            (/\ (wf_tasks[i].dependencies \ {wf_tasks[i].task_id}) \cap FailedMarks # {}
             /\ wf_tasks[i].status \notin {TaskStatus.READY, TaskStatus.RUNNING})
            => wf_tasks'[i].status \notin {TaskStatus.READY, TaskStatus.RUNNING}]_vars

(* ------------------------------------------------------------------ *)
(* Claims about the retrying executor                                  *)
(* ------------------------------------------------------------------ *)
\* Calls of the action that failed during the last execute_with_retry.
FailedAttempts == exec_ret.attempts - (IF exec_ret.success THEN 1 ELSE 0)

\* C27: a failing execution is retried with the retry count incremented by
\* one per failed attempt and never beyond max_retries; the call stops at the
\* first successful attempt, and once the retries are exhausted the context
\* is FAILED and no further attempt is made.
CX_C27 ==
    exec_ret.op = "execute_with_retry" =>
        LET retried == contexts[1].metrics.retry_count - exec_ret.retry_count_before
            made == SubSeq(contexts[1].execution_history,
                           Len(contexts[1].execution_history) - exec_ret.attempts + 1,
                           Len(contexts[1].execution_history))
        IN  /\ retried = FailedAttempts
            /\ retried <= contexts[1].max_retries
            /\ \A k \in 1..(Len(made) - 1) : made[k] = "error"
            /\ exec_ret.success => made[Len(made)] = "success"
            /\ ~exec_ret.success =>
                   /\ contexts[1].state = WorkflowState.FAILED
                   /\ exec_ret.attempts <= contexts[1].max_retries

(* ------------------------------------------------------------------ *)
(* Claims about the state machine                                      *)
(* ------------------------------------------------------------------ *)
\* C28: in every reachable state of a StateMachine, from construction on and
\* after any define_state, add_transition and transition calls, the current
\* state is one of the declared states.
CX_C28 == states[current_state] # None

\* The outgoing edges of the current state whose guard, if any, accepts the
\* context and whose guard clauses all accept it: their positions in the list.
AcceptingEdges(context) ==
    {k \in DOMAIN transitions[current_state] :
        LET edge == transitions[current_state][k]
        IN  /\ edge.condition = None \/ Holds(edge.condition, context)
            /\ \A g \in DOMAIN edge.guard_clauses : Holds(edge.guard_clauses[g], context)}

\* C29: transition succeeds exactly when the current state has an outgoing
\* edge whose guard, if any, accepts the context and whose guard clauses all
\* accept it, and then the new current state is the target of the first such
\* edge in declaration order.
CX_C29 ==
    [][sm_ret'.op = "transition" =>
            LET accepting == AcceptingEdges(sm_ret'.context)
            IN  /\ sm_ret'.result = TRUE <=> accepting # {}
                /\ sm_ret'.result = TRUE =>
                       \E k \in accepting :
                           /\ \A j \in accepting : k <= j
                           /\ current_state' = transitions[current_state][k].to_state]_vars

\* C30: when no outgoing edge of the current state matches, transition
\* returns False; and a transition that returns False appends one audit entry,
\* with the current state as from_state and success False, leaves the current
\* state as it was and runs no exit handler, action or entry handler.
T_C30 ==
    [][sm_ret'.op = "transition" =>
            /\ AcceptingEdges(sm_ret'.context) = {} => sm_ret'.result = FALSE
            /\ sm_ret'.result = FALSE =>
                   /\ Len(audit_trail') = Len(audit_trail) + 1
                   /\ SubSeq(audit_trail', 1, Len(audit_trail)) = audit_trail
                   /\ audit_trail'[Len(audit_trail')].from_state = current_state
                   /\ audit_trail'[Len(audit_trail')].to_state = ""
                   /\ audit_trail'[Len(audit_trail')].success = FALSE
                   /\ current_state' = current_state
                   /\ sm_ret'.ran = <<>>]_vars

\* transition has returned False in a declared state that has an exit handler
\* and an outgoing edge with an action, and the failure is in the audit trail.
W_C30 ==
    /\ sm_ret.op = "transition"
    /\ sm_ret.result = FALSE
    /\ states[current_state] # None
    /\ current_state \in state_exit_handlers
    /\ \E k \in DOMAIN transitions[current_state] : transitions[current_state][k].action
    /\ audit_trail[Len(audit_trail)].success = FALSE

StepRank(what) ==
    CASE what = "exit" -> 1 [] what = "action" -> 2 [] what = "entry" -> 3
      [] what = "callback" -> 4

\* The state a call left: old_state once it is set, the current state before.
LeftState(call) == IF call.old_state = None THEN current_state ELSE call.old_state

\* C31: a successful transition runs the exit handler of the old state, the
\* edge's action, the update of the current state, the entry handler of the
\* new state, the append of the success entry and the callbacks of (old,
\* new), in this order: the exit handler and the action see the old current
\* state, the entry handler sees the new one and an audit trail without the
\* call's entry, and the callbacks see the new state and the call's entry.
T_C31 ==
    \A t \in SmThreads :
       LET call == sm_calls[t]
       IN  /\ \A i, j \in DOMAIN call.ran :
                 i < j => /\ StepRank(call.ran[i][1]) < StepRank(call.ran[j][1])
                          /\ call.ran[j][3] =
                                call.ran[i][3] + (IF call.ran[j][1] = "callback" THEN 1 ELSE 0)
           /\ \A i \in DOMAIN call.ran :
                 /\ call.ran[i][1] \in {"exit", "action"} =>
                       call.ran[i][2] = LeftState(call)
                 /\ call.ran[i][1] \in {"entry", "callback"} =>
                       call.ran[i][2] = call.next_state
                 /\ call.ran[i][1] = "callback" =>
                       /\ call.ran[i][3] = Len(audit_trail)
                       /\ audit_trail[Len(audit_trail)] =
                             AuditEntry(call.old_state, call.next_state, call.trigger,
                                        call.user, TRUE)

\* C31, its case: a call from INITIAL to RUNNING has run an exit handler, an
\* action, an entry handler and a callback and has returned True.
W_C31 ==
    /\ sm_calls["t1"].outcome = "True"
    /\ sm_calls["t1"].old_state = "INITIAL"
    /\ sm_calls["t1"].next_state = "RUNNING"
    /\ Len(sm_calls["t1"].ran) = 4

\* The success entries of an audit trail, in order.
SuccessEntries(audit) == SelectSeq(audit, LAMBDA entry : entry.success)

\* The to-state of the last success entry, the initial state if there is none.
LastSuccessState(audit) ==
    IF SuccessEntries(audit) = <<>> THEN "INITIAL"
    ELSE SuccessEntries(audit)[Len(SuccessEntries(audit))].to_state

\* C38: when no call of transition is under way, also after one in which a
\* handler, action or callback raised, the current state is the to-state of
\* the last success entry (the initial state if there is none), and the
\* from-state of each success entry is the to-state of the one before it.
CX_C38 ==
    Running = {} =>
       /\ current_state = LastSuccessState(audit_trail)
       /\ \A i \in DOMAIN SuccessEntries(audit_trail) :
             SuccessEntries(audit_trail)[i].from_state =
                LastSuccessState(SubSeq(SuccessEntries(audit_trail), 1, i - 1))

\* The entry a transition call made alone appends to the trail audit.
SequentialEntry(audit, trigger, context, user) ==
    transition(LastSuccessState(audit), transitions, state_entry_handlers,
               state_exit_handlers, <<>>, trigger, context, user).audit_trail[1]

\* C33: transition is atomic: once the concurrent calls on one machine have
\* returned, the audit trail and the current state are those of the calls
\* made one after another in some order. Each entry is the one its call
\* appends when it runs alone after the entries before it, and the current
\* state is the to-state of the last success entry.
CX_C33 ==
    Running = {} =>
       /\ current_state = LastSuccessState(audit_trail)
       /\ \A i \in DOMAIN audit_trail :
             audit_trail[i] = SequentialEntry(SubSeq(audit_trail, 1, i - 1), "start",
                                              None, "system")

(* ------------------------------------------------------------------ *)
(* Claims about the state manager                                      *)
(* ------------------------------------------------------------------ *)
\* C39: after any sequence of transition_with_validation calls, on machines
\* whose edges may carry guard clauses, the state the tracker recorded last
\* is the current state of the machine.
CX_C39 == tracker_current_state = current_state

\* A call of transition_with_validation that a validation rule refused
\* leaves the machine's state and audit trail as they were.
RefusedByRule ==
    [][asm_ret'.op = "transition_with_validation" /\ asm_ret'.error = "Validation failed"
          => UNCHANGED <<current_state, audit_trail>>]_vars

(* ------------------------------------------------------------------ *)
(* Claims about the recursion of the critical path                     *)
(* ------------------------------------------------------------------ *)
\* C40: get_critical_path terminates for every workflow, a cyclic one and
\* one whose graph was not built included: the recursion of calculate_length
\* stays within the recursion limit, and no call ends in RecursionError.
CX_C40 == cp_ret.outcome # "RecursionError"

\* A call on a dependency graph without a cycle, the graph that was never
\* built included, returns the path the one-step model of get_critical_path
\* gives.
AcyclicReturns ==
    [][cp_ret.outcome = "running" /\ cp_ret'.outcome # "running"
          => IF \E order \in IterationOrders :
                   has_cycle(wf_tasks, dependency_graph, order)
             THEN cp_ret'.outcome = "RecursionError"
             ELSE /\ cp_ret'.outcome = "returned"
                  /\ \E order \in IterationOrders :
                        cp_ret'.path = get_critical_path(wf_tasks, dependency_graph, order)]_vars

(* ------------------------------------------------------------------ *)
(* Claims about failed agents and finished tasks                       *)
(* ------------------------------------------------------------------ *)
\* C37: an agent that check_health marked failed stays failed until it sends
\* a heartbeat or is registered again, the two calls that stamp the time and
\* set healthy: no other step of the monitor, record_error and
\* record_success included, gives a failed agent another status.
CX_C37 ==
    [][\A i \in 1..Len(agent_health) :
          agent_health[i].status = "failed" =>
             \/ agent_health'[i].status = "failed"
             \/ /\ agent_health'[i].status = "healthy"
                /\ agent_health'[i].last_heartbeat = hm_now]_vars

\* The assignments of an agent that are not completed.
OpenAssignments(agent_id) ==
    {t \in DOMAIN assignments :
        assignments[t].agent_id = agent_id /\ assignments[t].status # "completed"}

\* C35: after any sequence of coordinate_execution and complete_task calls an
\* agent is busy if and only if an assignment that is not completed names it,
\* and the current_task of a busy agent is the task of such an assignment.
CX_C35 ==
    \A i \in 1..Len(pool_agents) :
       /\ pool_agents[i].status = "busy" <=> OpenAssignments(pool_agents[i].id) # {}
       /\ pool_agents[i].status = "busy" =>
             pool_agents[i].current_task \in OpenAssignments(pool_agents[i].id)

\* C36: complete_task called for a task that is already completed does not
\* count it a second time and leaves the status of every agent as it was, so
\* that an agent's counter is the number of its distinct completed tasks.
CX_C36 ==
    [][\A t \in DOMAIN assignments :
          /\ pool_ret'.op = "complete_task" /\ pool_ret'.task_id = t
          /\ assignments[t].status = "completed"
          => pool_agents' = pool_agents]_vars

(* ------------------------------------------------------------------ *)
(* Claims about concurrent senders and receivers                       *)
(* ------------------------------------------------------------------ *)
\* The places a message is at: the slots of the mailboxes that hold it, the
\* receivers that took it and have not returned yet, and the receive calls
\* that returned it.
QueueSlots(uid) ==
    {<<i, k>> \in (1..Len(message_queues)) \X (1..MaxSends) :
        k <= Len(message_queues[i].queue) /\ message_queues[i].queue[k].uid = uid}
Takers(uid) ==
    {t \in BrokerThreads : br_calls[t].pc = "uncount" /\ br_calls[t].message.uid = uid}
Returns(uid) == {r \in br_received : r.uid = uid}

\* C34: under every interleaving of concurrent send_message and
\* receive_message calls, an accepted message is at one place exactly (in its
\* recipient's mailbox, with the receiver that took it, or returned once), a
\* receive returns a message only from its recipient's mailbox and never a
\* second time, and once no call is under way every mailbox holds, and
\* counts, the messages accepted for it less those received from it.
T_C34 ==
    /\ \A m \in br_accepted :
          /\ Cardinality(QueueSlots(m.uid)) + Cardinality(Takers(m.uid))
                + Cardinality(Returns(m.uid)) = 1
          /\ \A slot \in QueueSlots(m.uid) :
                message_queues[slot[1]].agent_id = m.recipient
    /\ \A r \in br_received : r.nth = 1 /\ r.agent_id = r.recipient
    /\ BrokerRunning = {} =>
          \A i \in 1..Len(message_queues) :
             /\ message_queues[i].message_count = Len(message_queues[i].queue)
             /\ Len(message_queues[i].queue) =
                   Cardinality({m \in br_accepted :
                                   m.recipient = message_queues[i].agent_id})
                   - Cardinality({r \in br_received :
                                     r.agent_id = message_queues[i].agent_id})

\* C34, its case: two messages were accepted and one of them returned, while
\* one thread is counting a third it has put and the other is uncounting a
\* message it has taken.
W_C34 ==
    /\ Cardinality(br_accepted) >= 2
    /\ br_received # {}
    /\ \E t, u \in BrokerThreads : br_calls[t].pc = "count" /\ br_calls[u].pc = "uncount"

====
